---- MODULE Spec2Model ----
(***************************************************************************)
(* Model of the authz-service policy decision point: the TTL/LRU cache     *)
(* subsystem (app/cache.py), the RBAC, ABAC and ownership evaluators       *)
(* (app/services/*.py), the entity gateway client                          *)
(* (app/clients/entity_service.py) and the decision orchestrator           *)
(* (app/services/decision_service.py).                                     *)
(*                                                                         *)
(* Strings that the code slices or matches (cache keys, patterns,          *)
(* resources) are sequences of atoms: an atom is a run of characters that  *)
(* the code never splits (an identifier, a namespace word, ":", "*").      *)
(* Time is in seconds; the clock advances in steps of TickSeconds.         *)
(***************************************************************************)
EXTENDS Integers, Sequences, FiniteSets, TLC

VARIABLES
    now,             \* datetime.utcnow(), in seconds
    policy_cache,    \* PolicyCache.policy_cache   : LRUCache
    role_cache,      \* PolicyCache.role_cache     : LRUCache
    decision_cache,  \* PolicyCache.decision_cache : LRUCache
    user_roles,      \* entity store: user -> ordered list of assigned role ids
    last,            \* record of the last completed call and what it returned
    served,          \* history: the first response returned since the last
                     \* invalidation, with its request and its time; cached:
                     \* the decision cache has kept the entry that call wrote
                     \* or read; stable: the entity store has not changed and
                     \* no gateway call has failed since
    lru,             \* a stand-alone LRUCache instance
    lruUsed,         \* history: the keys of lru, ordered by their most recent
                     \* set or live get-hit, oldest first
    lruLast,         \* record of the last call on lru
    lruStored,       \* history: for each key of lru, the set that stored it
                     \* (its time, ttl and value)
    inflight         \* the check_authorization coroutine that is suspended on
                     \* a gateway call: the await it waits at, its request
                     \* and the role list it has fetched so far

vars == <<now, policy_cache, role_cache, decision_cache, user_roles, last,
          served, lru, lruUsed, lruLast, lruStored, inflight>>

-----------------------------------------------------------------------------
(* Bounds of the model *)

MaxSize == 1          \* PolicyCache(max_size=...) of the model
LruMaxSize == 2       \* max_size of the stand-alone LRUCache
MaxNow == 60          \* the clock stops advancing here
MaxChecks == 2        \* checks of any request between two clear_all() calls
MaxGets == 4          \* checks of a read between two clear_all() calls
MaxFacadeGets == 2    \* gets through the PolicyCache facade between two clear_all()s
MaxLruGets == 2       \* gets of the stand-alone LRUCache between two clear()s
MaxAssigned == 2      \* role assignments held by the entity store
PatternMaxSize == 3   \* max_size of the LRUCache that clear_pattern is called on
MaxBatch == 3         \* checks of one batch
MaxKeyChecks == 3     \* checks of requests that share a key between two clear_all()s

(* Program constants *)

PolicyTTL == 300
RoleTTL == 120
DecisionTTL == 30
RetryAttempts == 3

\* the clock advances by one decision TTL at a time
TickSeconds == DecisionTTL

-----------------------------------------------------------------------------
(* Python values *)

PyNone == "None"
NoValue == <<>>

\* the element of a singleton set.  The result of a call that several
\* places read is bound as x \in {call}, so that the call is evaluated once.
Only(S) == CHOOSE x \in S : TRUE

-----------------------------------------------------------------------------
(* str helpers over atom sequences *)

startswith(k, prefix) ==
    /\ Len(prefix) <= Len(k)
    /\ SubSeq(k, 1, Len(prefix)) = prefix

endswith(k, suffix) ==
    /\ Len(suffix) <= Len(k)
    /\ SubSeq(k, Len(k) - Len(suffix) + 1, Len(k)) = suffix

\* pattern[:-1]
DropLast(s) == SubSeq(s, 1, Len(s) - 1)

\* pattern[1:]
DropFirst(s) == SubSeq(s, 2, Len(s))

\* index of the first "*" of s, 0 when there is none
FirstStar(s) ==
    IF \E i \in 1..Len(s) : s[i] = "*"
    THEN CHOOSE i \in 1..Len(s) : s[i] = "*" /\ \A j \in 1..(i - 1) : s[j] # "*"
    ELSE 0

\* s.split("*")[0] and s.split("*")[1] for a string that contains "*"
SplitStar0(s) == SubSeq(s, 1, FirstStar(s) - 1)

SplitStar1(s) ==
    LET rest == SubSeq(s, FirstStar(s) + 1, Len(s))
    IN  IF FirstStar(rest) = 0 THEN rest ELSE SubSeq(rest, 1, FirstStar(rest) - 1)

-----------------------------------------------------------------------------
(* CacheEntry and LRUCache.  An LRUCache is a record                        *)
(*   [max_size, default_ttl, cache, hits, misses]                           *)
(* where cache is the OrderedDict as a sequence of [key, value, expiry],    *)
(* first = least recently used, last = most recently used.                  *)

CacheEntry(key, value, ttl, t) == [key |-> key, value |-> value, expiry |-> t + ttl]

\* CacheEntry.is_expired that never reports expiry
is_expired_never(entry, t) == FALSE

is_expired(entry, t) == t > entry.expiry

LRUCache(max_size, default_ttl) ==
    [max_size |-> max_size, default_ttl |-> default_ttl,
     cache |-> <<>>, hits |-> 0, misses |-> 0]

KeysOf(c) == {c.cache[i].key : i \in 1..Len(c.cache)}

EntryOf(c, key) == c.cache[CHOOSE i \in 1..Len(c.cache) : c.cache[i].key = key]

Without(od, key) == SelectSeq(od, LAMBDA e : e.key # key)

\* OrderedDict.move_to_end(key)
move_to_end(od, key) ==
    LET e == od[CHOOSE i \in 1..Len(od) : od[i].key = key]
    IN  Append(Without(od, key), e)

\* LRUCache.get that leaves a hit where it is in the order
LRUCache_get_unpromoted(c, key, t) ==
    IF key \notin KeysOf(c)
    THEN [c |-> [c EXCEPT !.misses = @ + 1], found |-> FALSE, value |-> NoValue]
    ELSE IF is_expired(EntryOf(c, key), t)
         THEN [c |-> [c EXCEPT !.cache = Without(@, key), !.misses = @ + 1],
               found |-> FALSE, value |-> NoValue]
         ELSE [c |-> [c EXCEPT !.hits = @ + 1],
               found |-> TRUE, value |-> EntryOf(c, key).value]

\* LRUCache.get: the cache afterwards, whether a value was returned, the value
LRUCache_get(c, key, t) ==
    IF key \notin KeysOf(c)
    THEN [c |-> [c EXCEPT !.misses = @ + 1], found |-> FALSE, value |-> NoValue]
    ELSE IF is_expired(EntryOf(c, key), t)
         THEN [c |-> [c EXCEPT !.cache = Without(@, key), !.misses = @ + 1],
               found |-> FALSE, value |-> NoValue]
         ELSE [c |-> [c EXCEPT !.cache = move_to_end(@, key), !.hits = @ + 1],
               found |-> TRUE, value |-> EntryOf(c, key).value]

\* LRUCache.set that never evicts
LRUCache_set_ttl_unbounded(c, key, value, ttl, t) ==
    [c EXCEPT !.cache = Append(Without(@, key), CacheEntry(key, value, ttl, t))]

\* LRUCache.set that updates a stored key where it is in the order
LRUCache_set_ttl_in_place(c, key, value, ttl, t) ==
    LET entry == CacheEntry(key, value, ttl, t)
    IN  IF key \in KeysOf(c)
        THEN [c EXCEPT !.cache = [i \in 1..Len(@) |->
                                    IF @[i].key = key THEN entry ELSE @[i]]]
        ELSE LET added == Append(c.cache, entry)
             IN  IF Len(added) > c.max_size
                 THEN [c EXCEPT !.cache = Tail(added)]
                 ELSE [c EXCEPT !.cache = added]

\* LRUCache.set with an explicit ttl
LRUCache_set_ttl(c, key, value, ttl, t) ==
    LET entry == CacheEntry(key, value, ttl, t)
    IN  IF key \in KeysOf(c)
        THEN [c EXCEPT !.cache = Append(Without(@, key), entry)]
        ELSE LET added == Append(c.cache, entry)
             IN  IF Len(added) > c.max_size
                 THEN [c EXCEPT !.cache = Tail(added)]
                 ELSE [c EXCEPT !.cache = added]

\* LRUCache.set with ttl=None
LRUCache_set(c, key, value, t) == LRUCache_set_ttl(c, key, value, c.default_ttl, t)

LRUCache_delete(c, key) == [c EXCEPT !.cache = Without(@, key)]

LRUCache_clear(c) == [c EXCEPT !.cache = <<>>, !.hits = 0, !.misses = 0]

\* the keys of LRUCache.clear_pattern with an embedded "*" matched by the
\* text before it alone
keys_to_delete_prefix_only(c, pattern) ==
    IF Len(pattern) > 0 /\ pattern[Len(pattern)] = "*"
    THEN {k \in KeysOf(c) : startswith(k, DropLast(pattern))}
    ELSE IF Len(pattern) > 0 /\ pattern[1] = "*"
    THEN {k \in KeysOf(c) : endswith(k, DropFirst(pattern))}
    ELSE IF FirstStar(pattern) # 0
    THEN {k \in KeysOf(c) : startswith(k, SplitStar0(pattern))}
    ELSE {k \in KeysOf(c) : k = pattern}

\* the keys LRUCache.clear_pattern selects
keys_to_delete(c, pattern) ==
    IF Len(pattern) > 0 /\ pattern[Len(pattern)] = "*"
    THEN {k \in KeysOf(c) : startswith(k, DropLast(pattern))}
    ELSE IF Len(pattern) > 0 /\ pattern[1] = "*"
    THEN {k \in KeysOf(c) : endswith(k, DropFirst(pattern))}
    ELSE IF FirstStar(pattern) # 0
    THEN {k \in KeysOf(c) : startswith(k, SplitStar0(pattern))
                            /\ endswith(k, SplitStar1(pattern))}
    ELSE {k \in KeysOf(c) : k = pattern}

\* LRUCache.clear_pattern that treats '*' as clear()
LRUCache_clear_pattern_star_clears(c, pattern) ==
    IF pattern = <<"*">>
    THEN LRUCache_clear(c)
    ELSE [c EXCEPT !.cache = SelectSeq(@, LAMBDA e : e.key \notin keys_to_delete(c, pattern))]

LRUCache_clear_pattern(c, pattern) ==
    [c EXCEPT !.cache = SelectSeq(@, LAMBDA e : e.key \notin keys_to_delete(c, pattern))]

-----------------------------------------------------------------------------
(* PolicyCache: the three caches and the key namespaces.  A PolicyCache is  *)
(* a record [policy_cache, role_cache, decision_cache].                    *)

PolicyCache(policy_ttl, role_ttl, decision_ttl, max_size) ==
    [policy_cache   |-> LRUCache(max_size, policy_ttl),
     role_cache     |-> LRUCache(max_size, role_ttl),
     decision_cache |-> LRUCache(max_size, decision_ttl)]

policy_key(policy_id) == <<"policy", ":", policy_id>>
tenant_policies_key(tenant_id) == <<"tenant_policies", ":", tenant_id>>
user_roles_key(user_id, tenant_id) == <<"user_roles", ":", user_id, ":", tenant_id>>
role_key(role_id) == <<"role", ":", role_id>>
decision_key_of(decision_key) == <<"decision", ":", decision_key>>

\* the patterns PolicyCache.clear_tenant and clear_user build with f-strings
tenant_pattern(tenant_id) == <<"*", ":", tenant_id, "*">>
user_roles_pattern(user_id) == <<"user_roles", ":", user_id, ":", "*">>
user_decisions_pattern(user_id) == <<"decision", ":", "*", ":", user_id, ":", "*">>

clear_all(pc) ==
    [policy_cache   |-> LRUCache_clear(pc.policy_cache),
     role_cache     |-> LRUCache_clear(pc.role_cache),
     decision_cache |-> LRUCache_clear(pc.decision_cache)]

\* PolicyCache.clear_tenant that empties the three caches
clear_tenant_everything(pc, tenant_id) == clear_all(pc)

clear_tenant(pc, tenant_id) ==
    [policy_cache   |-> LRUCache_clear_pattern(pc.policy_cache, tenant_pattern(tenant_id)),
     role_cache     |-> LRUCache_clear_pattern(pc.role_cache, tenant_pattern(tenant_id)),
     decision_cache |-> LRUCache_clear_pattern(pc.decision_cache, tenant_pattern(tenant_id))]

clear_user(pc, user_id) ==
    [pc EXCEPT
       !.role_cache = LRUCache_clear_pattern(@, user_roles_pattern(user_id)),
       !.decision_cache = LRUCache_clear_pattern(@, user_decisions_pattern(user_id))]

-----------------------------------------------------------------------------
(* Typed Python values: the code applies UUID(...) and str(...) to them.    *)

NoneV == [type |-> "NoneType", v |-> "None"]
UuidV(x) == [type |-> "UUID", v |-> x]
StrV(x) == [type |-> "str", v |-> x]

\* bool(x) of the values above
truthy(x) == x.type # "NoneType" /\ x.v # ""

\* str(x)
str(x) == x.v

\* uuid.UUID(x): hex.replace(...) needs a str; any other argument raises
UUID_raises(x) == x.type # "str"

\* X-Correlation-ID as RequestContextMiddleware binds it: the header of the
\* request, or a fresh str(uuid4()) when the request has none
Uuid4Header == "c0ffee00-0000-4000-8000-000000000001"
OpaqueHeader == "req-1"
Headers == {Uuid4Header, OpaqueHeader}

\* ResponseMetadata(timestamp=..., correlation_id=get_correlation_id() or None):
\* the field is Optional[UUID4], so pydantic raises ValidationError for a
\* string that is no version-4 UUID
ResponseMetadata_raises(correlation_id) ==
    correlation_id # "" /\ correlation_id # Uuid4Header

-----------------------------------------------------------------------------
(* The entity store behind the gateway (static role catalogue, mutable      *)
(* user-role assignments) and EntityServiceClient.                         *)

Users == {"u1", "u2"}
RoleIds == {"r1", "r2"}
Tenants == {"t1", "t2"}

RoleName(r) == IF r = "r1" THEN "admin" ELSE "Viewer"
RoleTenant(r) == "t1"

\* str.upper() on the role names of the catalogue
upper(name) ==
    CASE name = "admin" -> "ADMIN"
      [] name = "Viewer" -> "VIEWER"
      [] name = "read" -> "READ"
      [] name = "create" -> "CREATE"
      [] name = "update" -> "UPDATE"
      [] name = "delete" -> "DELETE"
      [] name = "execute" -> "EXECUTE"
      [] name = "ip_address" -> "IP_ADDRESS"
      [] name = "level" -> "LEVEL"
      [] name = "tags" -> "TAGS"
      [] OTHER -> name

Ip1 == "10.0.0.1"

PermLoanReadIp ==
    [name |-> "loan:read:office", resource_type |-> "loan", action |-> "read",
     conditions |-> <<[key |-> "ip_address", expected |-> StrV(Ip1)]>>]
PermLoanCreate ==
    [name |-> "loan:create", resource_type |-> "loan", action |-> "create",
     conditions |-> <<>>]
PermLoanRead ==
    [name |-> "loan:read", resource_type |-> "loan", action |-> "read",
     conditions |-> <<>>]

\* GET /roles/{role_id}/permissions of the entity store
StorePermissions(r) ==
    IF r = "r1" THEN <<PermLoanReadIp, PermLoanCreate>> ELSE <<PermLoanRead>>

\* GET /users/{user_id}/roles?tenant_id= of the entity store: role records
\* without permissions, in assignment order
StoreRoles(ur, user_id, tenant_id) ==
    LET ids == SelectSeq(ur[user_id],
                         LAMBDA r : tenant_id = PyNone \/ RoleTenant(r) = tenant_id)
    IN  [i \in 1..Len(ids) |->
            [role_id |-> ids[i], name |-> RoleName(ids[i]),
             tenant_id |-> RoleTenant(ids[i]), permissions |-> <<>>]]

\* EntityServiceClient._request: attempts is the outcome of each HTTP attempt
\* (TRUE = 2xx response); the result is "ok" on the first success, and
\* EntityServiceError when retry_attempts attempts failed
AllFail == [i \in 1..RetryAttempts |-> FALSE]
FirstOk == [i \in 1..RetryAttempts |-> TRUE]
LastOk == [i \in 1..RetryAttempts |-> i = RetryAttempts]

\* what HTTP attempt number i does: "ok" (a 2xx response with a JSON body),
\* "status" (raise_for_status raises HTTPStatusError) or "error" (any other
\* exception: no connection, timeout, no JSON)
AttemptOutcomes == {"ok", "status", "error"}
OutcomeAt(attempts, i) == IF i \in DOMAIN attempts THEN attempts[i] ELSE "error"

\* the for loop of EntityServiceClient._request from range index attempt
\* on, over range(attempts_allowed), and the raise after the loop; made is
\* the number of HTTP attempts, response the attempt whose body is returned
RECURSIVE request_loop(_, _, _)
request_loop(attempts, attempts_allowed, attempt) ==
    IF attempt >= attempts_allowed
    THEN [result |-> "EntityServiceError", message |-> "Max retries exceeded",
          made |-> attempt, response |-> 0]
    ELSE IF OutcomeAt(attempts, attempt + 1) = "ok"
    THEN [result |-> "ok", message |-> "", made |-> attempt + 1, response |-> attempt + 1]
    ELSE IF attempt = attempts_allowed - 1
    THEN [result |-> "EntityServiceError", message |-> "Entity service error",
          made |-> attempt + 1, response |-> 0]
    ELSE request_loop(attempts, attempts_allowed, attempt + 1)

\* EntityServiceClient._request that tries once more than retry_attempts
client_request_once_more(attempts, retry_attempts) ==
    request_loop(attempts, retry_attempts + 1, 0)

\* EntityServiceClient._request
client_request(attempts, retry_attempts) == request_loop(attempts, retry_attempts, 0)

request_ok(attempts, retry_attempts) ==
    \E i \in 1..retry_attempts : attempts[i]

\* EntityServiceClient.get_user_roles: [] on EntityServiceError
client_get_user_roles(ur, user_id, tenant_id, attempts) ==
    IF request_ok(attempts, RetryAttempts)
    THEN StoreRoles(ur, user_id, tenant_id)
    ELSE <<>>

\* EntityServiceClient.get_role_permissions: [] on EntityServiceError
client_get_role_permissions(role_id, attempts) ==
    IF request_ok(attempts, RetryAttempts)
    THEN StorePermissions(role_id)
    ELSE <<>>

-----------------------------------------------------------------------------
(* ABACService.  A conditions map is a sequence of [key, expected] in dict  *)
(* order; a complex condition is expected = DictV(operator, value).         *)

IntV(n) == [type |-> "int", v |-> n]
ListV(xs) == [type |-> "list", v |-> xs]
DictV(operator, value) == [type |-> "dict", v |-> [operator |-> operator, value |-> value]]

\* a condition map without "operator"
ValueOnly(value) == [type |-> "dict", v |-> [value |-> value]]

\* Python ==
PyEq(a, b) == a.type = b.type /\ a.v = b.v

\* the strings that the conditions and contexts of the model hold, in the
\* order of Python's str comparison
Ip10 == "10.0"
High == "high"
OpenParen == "("
StrRank(s) ==
    CASE s = OpenParen -> 1
      [] s = Ip10 -> 2
      [] s = Ip1 -> 3
      [] s = High -> 4
      [] OTHER -> 5

\* a in b, for two of these strings
Substring(a, b) == a = b \/ (a = Ip10 /\ b = Ip1)

\* the list that a context of the model holds
HighTags == ListV(<<StrV(High)>>)

\* str(value) of a value of the model
py_str(value) ==
    CASE value.type = "int" ->
           (CASE value.v = 1 -> "1" [] value.v = 2 -> "2" [] value.v = 3 -> "3"
              [] OTHER -> "0")
      [] value.type = "list" -> "['high']"
      [] OTHER -> value.v

\* re.compile(pattern) raises re.error: "(" has no closing parenthesis
re_error(pattern) == pattern = OpenParen

\* bool(re.match(pattern, s)) for the patterns of the model: "10.0" matches
\* at the start of "10.0.0.1" and of none of the other strings
re_match(pattern, s) == pattern = Ip10 /\ s = Ip1

Cmp(m, n) == IF m < n THEN "lt" ELSE IF m = n THEN "eq" ELSE "gt"

\* how Python orders a and b: "lt", "eq", "gt", or "err" when <, <=, >, >=
\* between them raise TypeError.  Numbers, strings and lists are ordered
\* among themselves, lists by their first unequal elements
RECURSIVE Order(_, _)
Order(a, b) ==
    CASE a.type = "int" /\ b.type = "int" -> Cmp(a.v, b.v)
      [] a.type = "str" /\ b.type = "str" -> Cmp(StrRank(a.v), StrRank(b.v))
      [] a.type = "list" /\ b.type = "list" ->
           LET differ == {i \in 1..Len(a.v) : i <= Len(b.v) /\ ~PyEq(a.v[i], b.v[i])}
           IN  IF differ = {}
               THEN Cmp(Len(a.v), Len(b.v))
               ELSE Order(a.v[CHOOSE i \in differ : \A j \in differ : i <= j],
                          b.v[CHOOSE i \in differ : \A j \in differ : i <= j])
      [] OTHER -> "err"

\* value in expected, for a list
PyIn(value, xs) == \E i \in 1..Len(xs) : PyEq(value, xs[i])

\* what a block of code did: it returned matched, or it raised
Returned(matched) == [raised |-> FALSE, matched |-> matched]
Raises == [raised |-> TRUE, matched |-> FALSE]

Ordered(value, expected, outcomes) ==
    IF Order(value, expected) = "err" THEN Raises
    ELSE Returned(Order(value, expected) \in outcomes)

\* the try block of ABACService._evaluate_complex_condition
try_operator(operator, value, expected) ==
    CASE operator = "eq" -> Returned(PyEq(value, expected))
      [] operator = "ne" -> Returned(~PyEq(value, expected))
      [] operator = "gt" -> Ordered(value, expected, {"gt"})
      [] operator = "gte" -> Ordered(value, expected, {"gt", "eq"})
      [] operator = "lt" -> Ordered(value, expected, {"lt"})
      [] operator = "lte" -> Ordered(value, expected, {"lt", "eq"})
      [] operator = "in" ->
           Returned(expected.type = "list" /\ PyIn(value, expected.v))
      [] operator = "not_in" ->
           Returned(expected.type # "list" \/ ~PyIn(value, expected.v))
      [] operator = "contains" ->
           IF value.type = "list" THEN Returned(PyIn(expected, value.v))
           ELSE IF value.type # "str" THEN Returned(FALSE)
           ELSE IF expected.type = "str" THEN Returned(Substring(expected.v, value.v))
           ELSE Raises
      [] operator = "regex" ->
           IF expected.type # "str" \/ re_error(expected.v) THEN Raises
           ELSE Returned(re_match(expected.v, py_str(value)))
      [] OTHER -> Returned(FALSE)

\* condition.get("operator", "eq") and condition.get("value")
operator_of(condition) ==
    IF "operator" \in DOMAIN condition THEN condition.operator ELSE "eq"
expected_of(condition) ==
    IF "value" \in DOMAIN condition THEN condition.value ELSE NoneV

null_path(condition) ==
    \/ operator_of(condition) = "null"
    \/ operator_of(condition) = "eq" /\ expected_of(condition).type = "NoneType"

\* ABACService._evaluate_complex_condition without its except clause
complex_condition_unguarded(key, condition, value) ==
    IF value.type = "NoneType"
    THEN Returned(null_path(condition))
    ELSE try_operator(operator_of(condition), value, expected_of(condition))

\* ABACService._evaluate_complex_condition: what the call does
complex_condition(key, condition, value) ==
    IF value.type = "NoneType"
    THEN Returned(null_path(condition))
    ELSE Only({IF r.raised THEN Returned(FALSE) ELSE r :
               r \in {try_operator(operator_of(condition), value,
                                   expected_of(condition))}})

\* ABACService._evaluate_complex_condition: the value it returns
evaluate_complex_condition(key, condition, value) ==
    complex_condition(key, condition, value).matched

\* dict.get(key) on the model_dump() of the request context
context_get(context, key) ==
    IF key \in DOMAIN context THEN context[key] ELSE NoneV

condition_holds(cond, context) ==
    IF cond.expected.type = "dict"
    THEN evaluate_complex_condition(cond.key, cond.expected.v, context_get(context, cond.key))
    ELSE PyEq(context_get(context, cond.key), cond.expected)

\* ABACService.evaluate_conditions that goes on after a failing condition
\* and reports every one of them
evaluate_conditions_exhaustive(conditions, context) ==
    LET failing == {i \in 1..Len(conditions) : ~condition_holds(conditions[i], context)}
        code(i) == (IF i \in failing THEN "ABAC_CONDITION_FAILED_"
                    ELSE "ABAC_CONDITION_PASSED_") \o upper(conditions[i].key)
    IN  IF Len(conditions) = 0
        THEN [matched |-> TRUE, reasons |-> <<>>]
        ELSE [matched |-> failing = {},
              reasons |-> IF failing = {}
                          THEN [i \in 1..Len(conditions) |-> code(i)]
                          ELSE SelectSeq([i \in 1..Len(conditions) |-> code(i)],
                                         LAMBDA c : c \in {code(i) : i \in failing})]

\* ABACService.evaluate_conditions
evaluate_conditions(conditions, context) ==
    LET failing == {i \in 1..Len(conditions) : ~condition_holds(conditions[i], context)}
    IN  IF Len(conditions) = 0
        THEN [matched |-> TRUE, reasons |-> <<>>]
        ELSE IF failing # {}
        THEN LET first == CHOOSE i \in failing : \A j \in failing : i <= j
             IN  [matched |-> FALSE,
                  reasons |-> <<"ABAC_CONDITION_FAILED_" \o upper(conditions[first].key)>>]
        ELSE [matched |-> TRUE,
              reasons |-> [i \in 1..Len(conditions) |->
                             "ABAC_CONDITION_PASSED_" \o upper(conditions[i].key)]]

-----------------------------------------------------------------------------
(* OwnershipService *)

applies_to_action(action) == action \in {"read", "update", "delete"}

check_ownership(user_id, resource_owner_id, action) ==
    IF resource_owner_id.type = "NoneType"
    THEN [is_owner |-> FALSE, reasons |-> <<"NO_OWNER_INFO">>]
    ELSE IF user_id = str(resource_owner_id)
    THEN [is_owner |-> TRUE, reasons |-> <<"OWNER_ACCESS", "OWNER_ACTION_" \o upper(action)>>]
    ELSE [is_owner |-> FALSE, reasons |-> <<"NOT_OWNER">>]

-----------------------------------------------------------------------------
(* RBACService.  gw is what the gateway does during the call:               *)
(*   gw.roles      the HTTP attempts of the role fetch,                     *)
(*   gw.perm_fail  the roles whose permission fetch fails on every attempt. *)

GatewayUp == [roles |-> LastOk, perm_fail |-> {}]
GatewayOutcomes ==
    {GatewayUp, [roles |-> AllFail, perm_fail |-> {}], [roles |-> LastOk, perm_fail |-> {"r1"}]}

\* the enrichment loop of get_user_roles
enrich(roles, gw) ==
    [i \in 1..Len(roles) |->
        [roles[i] EXCEPT !.permissions =
            client_get_role_permissions(roles[i].role_id,
                IF roles[i].role_id \in gw.perm_fail THEN AllFail ELSE FirstOk)]]

\* the result of get_user_roles after the cache lookup got: the cached list
\* on a hit, the fetched and enriched list, now cached, on a miss
roles_after_get(pc, got, key, t, fetched_roles, gw) ==
    IF got.found
    THEN [pc |-> [pc EXCEPT !.role_cache = got.c], roles |-> got.value,
          fetched |-> FALSE, fetch_ok |-> FALSE]
    ELSE Only({[pc |-> [pc EXCEPT !.role_cache = LRUCache_set(got.c, key, enriched_roles, t)],
                roles |-> enriched_roles, fetched |-> TRUE,
                fetch_ok |-> request_ok(gw.roles, RetryAttempts)] :
               enriched_roles \in {enrich(fetched_roles, gw)}})

\* RBACService.get_user_roles that answers a failed fetch with the roles of
\* the entity store
get_user_roles_ignoring_failure(pc, ur, t, user_id, tenant_id, gw) ==
    LET key == user_roles_key(user_id, IF tenant_id = PyNone THEN "all" ELSE tenant_id)
    IN  Only({roles_after_get(pc, got, key, t, StoreRoles(ur, user_id, tenant_id), gw) :
              got \in {LRUCache_get(pc.role_cache, key, t)}})

\* RBACService.get_user_roles; tenant_id is PyNone or the tenant's id
get_user_roles(pc, ur, t, user_id, tenant_id, gw) ==
    LET key == user_roles_key(user_id, IF tenant_id = PyNone THEN "all" ELSE tenant_id)
    IN  Only({roles_after_get(pc, got, key, t,
                              client_get_user_roles(ur, user_id, tenant_id, gw.roles), gw) :
              got \in {LRUCache_get(pc.role_cache, key, t)}})

\* the (role, permission) index pairs of roles that grant (resource_type, action)
Matches(roles, resource_type, action) ==
    {m \in UNION {{<<i, j>> : j \in 1..Len(roles[i].permissions)} : i \in 1..Len(roles)} :
        /\ roles[m[1]].permissions[m[2]].resource_type = resource_type
        /\ roles[m[1]].permissions[m[2]].action = action}

FirstMatch(roles, resource_type, action) ==
    CHOOSE m \in Matches(roles, resource_type, action) :
        \A n \in Matches(roles, resource_type, action) :
            m[1] < n[1] \/ (m[1] = n[1] /\ m[2] <= n[2])

\* the scan of has_permission that names the first role of the list,
\* whichever role holds the permission
scan_roles_naming_first(roles, resource_type, action) ==
    IF Len(roles) = 0
    THEN [allowed |-> FALSE, reasons |-> <<"NO_ROLES">>]
    ELSE IF Matches(roles, resource_type, action) # {}
    THEN [allowed |-> TRUE,
          reasons |-> <<"RBAC_MATCH", "ROLE_" \o upper(roles[1].name)>>]
    ELSE [allowed |-> FALSE, reasons |-> <<"NO_PERMISSION">>]

\* the scan of RBACService.has_permission over the role list
scan_roles(roles, resource_type, action) ==
    IF Len(roles) = 0
    THEN [allowed |-> FALSE, reasons |-> <<"NO_ROLES">>]
    ELSE IF Matches(roles, resource_type, action) # {}
    THEN [allowed |-> TRUE,
          reasons |-> <<"RBAC_MATCH",
                        "ROLE_" \o upper(roles[FirstMatch(roles, resource_type, action)[1]].name)>>]
    ELSE [allowed |-> FALSE, reasons |-> <<"NO_PERMISSION">>]

\* RBACService.has_permission that gives no reason for a refusal
has_permission_without_reasons(pc, ur, t, user_id, resource_type, action, tenant_id, gw) ==
    Only({Only({[pc |-> r.pc, roles |-> r.roles, fetched |-> r.fetched,
                 fetch_ok |-> r.fetch_ok, allowed |-> s.allowed,
                 reasons |-> IF s.allowed THEN s.reasons ELSE <<>>] :
                s \in {scan_roles(r.roles, resource_type, action)}}) :
          r \in {get_user_roles(pc, ur, t, user_id, tenant_id, gw)}})

\* RBACService.has_permission
has_permission(pc, ur, t, user_id, resource_type, action, tenant_id, gw) ==
    Only({Only({[pc |-> r.pc, roles |-> r.roles, fetched |-> r.fetched,
                 fetch_ok |-> r.fetch_ok, allowed |-> s.allowed, reasons |-> s.reasons] :
                s \in {scan_roles(r.roles, resource_type, action)}}) :
          r \in {get_user_roles(pc, ur, t, user_id, tenant_id, gw)}})

-----------------------------------------------------------------------------
(* DecisionService.  A request is                                           *)
(*   [user_id, resource, action, context |-> [tenant_id, resource_owner_id, *)
(*    ip_address]]                                                          *)
(* with user_id the canonical string of the UUID, resource a sequence of    *)
(* atoms ("loan", ":", "1") and the context fields typed values: pydantic   *)
(* parses tenant_id and resource_owner_id into UUID objects, and            *)
(* model_dump() hands them on as UUID objects.                              *)

RECURSIVE Concat(_)
Concat(atoms) == IF atoms = <<>> THEN "" ELSE Head(atoms) \o Concat(Tail(atoms))

\* hashlib.md5(key_string.encode()).hexdigest(): 32 hex digits that stand for
\* key_string and contain neither ":" nor "*"
md5_hexdigest(key_string) == "md5(" \o key_string \o ")"

\* DecisionService._generate_decision_key with the ip address in the key
generate_decision_key_with_ip(request) ==
    md5_hexdigest(Concat(<<request.user_id, ":", Concat(request.resource), ":",
                           request.action, ":",
                           IF request.context.is_none THEN ""
                           ELSE str(request.context.tenant_id),
                           ":", str(request.context.ip_address)>>))

\* DecisionService._generate_decision_key: a request without a context
\* object has the default "" for the tenant part, any other has
\* str(tenant_id), "None" when there is no tenant
generate_decision_key(request) ==
    md5_hexdigest(Concat(<<request.user_id, ":", Concat(request.resource), ":",
                           request.action, ":",
                           IF request.context.is_none THEN ""
                           ELSE str(request.context.tenant_id)>>))

\* request.resource.split(":")[0]
resource_type_of(resource) == IF resource[1] = ":" THEN "" ELSE resource[1]

PolicyVersion == "1.0.0"

\* invoked: the methods of the three evaluators that _evaluate has called,
\* in the order of the calls
Raised(pc, rb) ==
    [pc |-> pc, raised |-> TRUE, decision |-> "NONE", reason_codes |-> <<>>,
     evaluated_policies |-> <<>>, rbac |-> rb,
     invoked |-> IF rb.called THEN <<"has_permission">> ELSE <<>>]

Evaluated(pc, rb, decision, reason_codes, evaluated_policies) ==
    [pc |-> pc, raised |-> FALSE, decision |-> decision, reason_codes |-> reason_codes,
     evaluated_policies |-> evaluated_policies, rbac |-> rb,
     invoked |-> IF rb.called THEN <<"has_permission">> ELSE <<>>]

\* ev, after the calls of the methods named
Invoking(ev, methods) == [ev EXCEPT !.invoked = @ \o methods]

\* what is known of the RBAC step: not reached, or has_permission's result
NoRbac == [called |-> FALSE, allowed |-> FALSE, reasons |-> <<>>, roles |-> <<>>,
           fetched |-> FALSE, fetch_ok |-> FALSE]
RbacOf(rb) == [called |-> TRUE, allowed |-> rb.allowed, reasons |-> rb.reasons,
               roles |-> rb.roles, fetched |-> rb.fetched, fetch_ok |-> rb.fetch_ok]

\* the conditions map handed to ABACService.evaluate_conditions
abac_conditions(roles, resource_type, action) == <<>>

\* Step 3 of DecisionService._evaluate and the final return
evaluate_ownership(pc, rb, request, reason_codes, evaluated_policies) ==
    LET action == request.action
        resource_owner_id == request.context.resource_owner_id
    IN  IF applies_to_action(action) /\ truthy(resource_owner_id)
        THEN IF UUID_raises(resource_owner_id)
             THEN Invoking(Raised(pc, RbacOf(rb)), <<"evaluate_conditions">>)
             ELSE LET ow == check_ownership(request.user_id, UuidV(str(resource_owner_id)), action)
                  IN  Invoking(
                        IF ~ow.is_owner /\ ~rb.allowed
                        THEN Evaluated(pc, RbacOf(rb), "DENY", reason_codes \o ow.reasons,
                                       Append(evaluated_policies, "ownership_policy"))
                        ELSE Evaluated(pc, RbacOf(rb), "ALLOW", reason_codes \o ow.reasons,
                                       Append(evaluated_policies, "ownership_policy")),
                        <<"evaluate_conditions", "check_ownership">>)
        ELSE Invoking(Evaluated(pc, RbacOf(rb), "ALLOW",
                                IF reason_codes = <<>> THEN <<"ALLOW">> ELSE reason_codes,
                                evaluated_policies),
                      <<"evaluate_conditions">>)

\* the tenant_id argument of has_permission: str(UUID(tenant_id)) or None
tenant_argument(request) ==
    IF truthy(request.context.tenant_id) THEN str(request.context.tenant_id) ELSE PyNone

\* DecisionService._evaluate with the ownership step run after an RBAC denial
evaluate_owner_override(pc, ur, t, request, gw) ==
    IF truthy(request.context.tenant_id) /\ UUID_raises(request.context.tenant_id)
    THEN Raised(pc, NoRbac)
    ELSE Only({IF ~rb.allowed
                  /\ request.context.resource_owner_id # UuidV(request.user_id)
               THEN Evaluated(rb.pc, RbacOf(rb), "DENY", rb.reasons, <<"rbac_policy">>)
               ELSE Evaluated(rb.pc, RbacOf(rb), "ALLOW", rb.reasons \o <<"OWNER_MATCH">>,
                              <<"rbac_policy", "ownership_policy">>) :
               rb \in {has_permission(pc, ur, t, request.user_id,
                                      resource_type_of(request.resource), request.action,
                                      tenant_argument(request), gw)}})

\* Steps 1 to 3 of DecisionService._evaluate that evaluate the ABAC
\* conditions before they look at the result of has_permission
evaluate_after_rbac_abac_first(rb, request) ==
    LET ab == evaluate_conditions(
                  abac_conditions(rb.roles, resource_type_of(request.resource),
                                  request.action),
                  request.context)
    IN  IF ~rb.allowed
        THEN Invoking(Evaluated(rb.pc, RbacOf(rb), "DENY",
                                IF rb.reasons = <<>> THEN <<"DEFAULT_DENY">>
                                ELSE rb.reasons,
                                <<"rbac_policy">>),
                      <<"evaluate_conditions">>)
        ELSE IF ~ab.matched
        THEN Invoking(Evaluated(rb.pc, RbacOf(rb), "DENY", rb.reasons \o ab.reasons,
                                <<"rbac_policy", "abac_policy">>),
                      <<"evaluate_conditions">>)
        ELSE evaluate_ownership(rb.pc, rb, request, rb.reasons \o ab.reasons,
                                <<"rbac_policy", "abac_policy">>)

\* Steps 1 to 3 of DecisionService._evaluate once has_permission returned rb
evaluate_after_rbac(rb, request) ==
    LET ab == evaluate_conditions(
                  abac_conditions(rb.roles, resource_type_of(request.resource),
                                  request.action),
                  request.context)
    IN  IF ~rb.allowed
        THEN Evaluated(rb.pc, RbacOf(rb), "DENY",
                       IF rb.reasons = <<>> THEN <<"DEFAULT_DENY">> ELSE rb.reasons,
                       <<"rbac_policy">>)
        ELSE IF ~ab.matched
        THEN Invoking(Evaluated(rb.pc, RbacOf(rb), "DENY", rb.reasons \o ab.reasons,
                                <<"rbac_policy", "abac_policy">>),
                      <<"evaluate_conditions">>)
        ELSE evaluate_ownership(rb.pc, rb, request, rb.reasons \o ab.reasons,
                                <<"rbac_policy", "abac_policy">>)

\* DecisionService._evaluate
evaluate(pc, ur, t, request, gw) ==
    IF truthy(request.context.tenant_id) /\ UUID_raises(request.context.tenant_id)
    THEN Raised(pc, NoRbac)
    ELSE Only({evaluate_after_rbac(rb, request) :
               rb \in {has_permission(pc, ur, t, request.user_id,
                                      resource_type_of(request.resource), request.action,
                                      tenant_argument(request), gw)}})

\* no AuthorizationResponse (the call raised, or no call was made)
NoResponse ==
    [decision |-> "NONE", reason_codes |-> <<>>, policy_version |-> PolicyVersion,
     evaluated_policies |-> <<>>, timestamp |-> 0]

\* the AuthorizationResponse built from an evaluation (model_dump() of it),
\* without metadata.correlation_id
Response(ev, t) ==
    [decision |-> ev.decision, reason_codes |-> ev.reason_codes,
     policy_version |-> PolicyVersion,
     evaluated_policies |-> ev.evaluated_policies, timestamp |-> t]

\* what _evaluate did, without the caches
EvaluationOf(ev) ==
    [raised |-> ev.raised, decision |-> ev.decision, reason_codes |-> ev.reason_codes,
     evaluated_policies |-> ev.evaluated_policies, invoked |-> ev.invoked]

\* _evaluate was not called
NoEvaluation ==
    [raised |-> FALSE, decision |-> "NONE", reason_codes |-> <<>>,
     evaluated_policies |-> <<>>, invoked |-> <<>>]

\* the exception that ends check_authorization after a miss and the
\* evaluation ev, "" when there is none: AttributeError from UUID(...) in
\* _evaluate, ValidationError from ResponseMetadata(...)
miss_error(ev, correlation_id) ==
    IF ev.raised THEN "AttributeError"
    ELSE IF ResponseMetadata_raises(correlation_id) THEN "ValidationError"
    ELSE ""

\* check_authorization after a miss that answers a failure with ALLOW
miss_result_fail_open(ev, key, t, correlation_id) ==
    [pc |-> ev.pc, outcome |-> "returned", hit |-> FALSE,
     response |-> [NoResponse EXCEPT !.decision = "ALLOW"], rbac |-> ev.rbac,
     error |-> miss_error(ev, correlation_id), evaluation |-> EvaluationOf(ev)]

\* the result of check_authorization after a miss and the evaluation ev:
\* the response is built, with its metadata, and then cached
miss_result(ev, key, t, correlation_id) ==
    IF miss_error(ev, correlation_id) # ""
    THEN [pc |-> ev.pc, outcome |-> "raised", hit |-> FALSE,
          response |-> NoResponse, rbac |-> ev.rbac,
          error |-> miss_error(ev, correlation_id), evaluation |-> EvaluationOf(ev)]
    ELSE [pc |-> [ev.pc EXCEPT !.decision_cache =
                    LRUCache_set(@, key, Response(ev, t), t)],
          outcome |-> "returned", hit |-> FALSE,
          response |-> Response(ev, t), rbac |-> ev.rbac, error |-> "",
          evaluation |-> EvaluationOf(ev)]

\* the caches after the lookup got of the decision cache
after_get(pc, got) == [pc EXCEPT !.decision_cache = got.c]

\* DecisionService.check_authorization that answers a hit with a fresh
\* evaluation against the entity store in place of the cached response
check_authorization_reevaluating(pc, ur, t, request, gw, correlation_id) ==
    LET key == decision_key_of(generate_decision_key(request))
    IN  Only({IF got.found
              THEN Only({[pc |-> pc1, outcome |-> "returned", hit |-> TRUE,
                          response |-> [got.value EXCEPT
                                          !.decision = fresh.decision,
                                          !.reason_codes = fresh.reason_codes],
                          rbac |-> NoRbac, error |-> "",
                          evaluation |-> NoEvaluation] :
                         fresh \in {evaluate(clear_all(pc1), ur, t, request, gw)}})
              ELSE Only({miss_result(ev, key, t, correlation_id) :
                         ev \in {evaluate(pc1, ur, t, request, gw)}}) :
              got \in {LRUCache_get(pc.decision_cache, key, t)},
              pc1 \in {after_get(pc, LRUCache_get(pc.decision_cache, key, t))}})

\* DecisionService.check_authorization that stores the decision again
\* when it answers from the cache
check_authorization_refreshing(pc, ur, t, request, gw, correlation_id) ==
    LET key == decision_key_of(generate_decision_key(request))
    IN  Only({IF got.found
              THEN [pc |-> [pc1 EXCEPT !.decision_cache =
                              LRUCache_set(@, key, got.value, t)],
                    outcome |-> "returned", hit |-> TRUE,
                    response |-> got.value, rbac |-> NoRbac, error |-> "",
                    evaluation |-> NoEvaluation]
              ELSE Only({miss_result(ev, key, t, correlation_id) :
                         ev \in {evaluate(pc1, ur, t, request, gw)}}) :
              got \in {LRUCache_get(pc.decision_cache, key, t)},
              pc1 \in {after_get(pc, LRUCache_get(pc.decision_cache, key, t))}})

\* DecisionService.check_authorization: the caches afterwards and the result
check_authorization(pc, ur, t, request, gw, correlation_id) ==
    LET key == decision_key_of(generate_decision_key(request))
    IN  Only({IF got.found
              THEN [pc |-> pc1, outcome |-> "returned", hit |-> TRUE,
                    response |-> got.value, rbac |-> NoRbac, error |-> "",
                    evaluation |-> NoEvaluation]
              ELSE Only({miss_result(ev, key, t, correlation_id) :
                         ev \in {evaluate(pc1, ur, t, request, gw)}}) :
              got \in {LRUCache_get(pc.decision_cache, key, t)},
              pc1 \in {after_get(pc, LRUCache_get(pc.decision_cache, key, t))}})

-----------------------------------------------------------------------------
(* routes/authz.py: batch_check_authorization *)

\* DecisionResponse number index of the batch, for the result r of
\* DecisionService.check_authorization
DecisionResponse(r, index) ==
    IF r.outcome = "raised"
    THEN [decision |-> "DENY", reason_codes |-> <<"EVALUATION_ERROR">>,
          policy_version |-> "1.0.0", request_index |-> index]
    ELSE [decision |-> r.response.decision, reason_codes |-> r.response.reason_codes,
          policy_version |-> r.response.policy_version, request_index |-> index]

\* what is kept of the result of one check of a batch
CheckResult(r) == [outcome |-> r.outcome, hit |-> r.hit, response |-> r.response]

\* the loop over enumerate(request.checks), from position i of the
\* sequence on: the caches afterwards, the decisions appended and the
\* results of the calls of check_authorization
RECURSIVE batch_loop(_, _, _, _, _, _, _)
batch_loop(pc, ur, t, checks, i, gw, correlation_id) ==
    IF i > Len(checks)
    THEN [pc |-> pc, decisions |-> <<>>, results |-> <<>>]
    ELSE Only({Only({[pc |-> rest.pc,
                      decisions |-> <<DecisionResponse(r, i - 1)>> \o rest.decisions,
                      results |-> <<CheckResult(r)>> \o rest.results] :
                     rest \in {batch_loop(r.pc, ur, t, checks, i + 1, gw,
                                          correlation_id)}}) :
               r \in {check_authorization(pc, ur, t, checks[i], gw, correlation_id)}})

\* batch_check_authorization: the caches afterwards and the answer of the
\* route; the BatchAuthorizationResponse is built, with its metadata, after
\* the loop
batch_check_authorization(pc, ur, t, checks, gw, correlation_id) ==
    Only({IF ResponseMetadata_raises(correlation_id)
          THEN [pc |-> loop.pc, status |-> 500,
                detail |-> "Batch authorization check failed",
                decisions |-> <<>>, results |-> loop.results]
          ELSE [pc |-> loop.pc, status |-> 200, detail |-> "",
                decisions |-> loop.decisions, results |-> loop.results] :
          loop \in {batch_loop(pc, ur, t, checks, 1, gw, correlation_id)}})

-----------------------------------------------------------------------------
(* AssignmentService *)

\* json.dumps of a request body: the model_dump() of UserRoleAssignmentCreate
\* holds UUID objects, which the json encoder rejects with TypeError on
\* every attempt
json_raises(body) == \E f \in DOMAIN body : body[f].type = "UUID"

\* EntityServiceClient.assign_role_to_user: TRUE when the POST succeeded
client_assign_ok(assignment_dict, attempts) ==
    /\ ~json_raises(assignment_dict)
    /\ request_ok(attempts, RetryAttempts)

\* EntityServiceClient.revoke_role_from_user: TRUE when the DELETE succeeded
client_revoke_ok(ur, user_id, role_id, attempts) ==
    /\ request_ok(attempts, RetryAttempts)
    /\ \E i \in 1..Len(ur[user_id]) : ur[user_id][i] = role_id

StoreAssign(ur, user_id, role_id) ==
    IF \E i \in 1..Len(ur[user_id]) : ur[user_id][i] = role_id
    THEN ur
    ELSE [ur EXCEPT ![user_id] = Append(@, role_id)]

StoreRevoke(ur, user_id, role_id) ==
    [ur EXCEPT ![user_id] = SelectSeq(@, LAMBDA r : r # role_id)]

-----------------------------------------------------------------------------------------------------------------------------------------------------
(* The requests of the model *)

LoanOne == <<"loan", ":", "1">>
DocTwo == <<"doc", ":", "2">>
\* is_none: the request has "context": null, and the code reads {} in
\* place of context.model_dump()
NoContext == [tenant_id |-> NoneV, resource_owner_id |-> NoneV, ip_address |-> NoneV,
              is_none |-> FALSE]
NullContext == [NoContext EXCEPT !.is_none = TRUE]
TenantContext == [NoContext EXCEPT !.tenant_id = UuidV("t1")]
OwnerContext == [NoContext EXCEPT !.resource_owner_id = UuidV("u1")]
IpContext == [NoContext EXCEPT !.ip_address = StrV(Ip1)]
OtherOwnerContext == [NoContext EXCEPT !.resource_owner_id = UuidV("u2")]

Request(user_id, resource, action, context) ==
    [user_id |-> user_id, resource |-> resource, action |-> action, context |-> context]

\* reads of loan:1 by either user
ReadRequests == {Request(u, LoanOne, "read", NoContext) : u \in Users}

Requests ==
    ReadRequests
    \cup {Request(u, LoanOne, "read", c) :
            u \in Users, c \in {IpContext, TenantContext, OwnerContext}}
    \cup {Request("u1", LoanOne, "create", c) : c \in {NoContext, OwnerContext}}
    \cup {Request("u1", DocTwo, "read", NoContext)}
    \cup {Request("u1", LoanOne, "read", OtherOwnerContext)}

\* the requests sent to the routes with and without an X-Correlation-ID
\* header: a read, the same read with a tenant and with an owner, a create
RouteRequests ==
    {Request("u1", LoanOne, "read", c) : c \in {NoContext, TenantContext, OwnerContext}}
    \cup {Request("u1", LoanOne, "create", NoContext)}

\* requests that differ in nothing but the context: reads of loan:1 by u1
\* with no context object, with an empty context, with an ip address, with
\* an owner; and a read by u2
KeyRequests ==
    {Request("u1", LoanOne, "read", c) :
        c \in {NullContext, NoContext, IpContext, OwnerContext}}
    \cup {Request("u2", LoanOne, "read", NoContext)}

\* the checks of a batch
BatchRequests ==
    {Request("u1", LoanOne, "read", c) : c \in {NoContext, TenantContext}}
    \cup {Request("u1", LoanOne, "create", NoContext)}

\* BatchAuthorizationRequest.checks: 1 to MaxBatch checks
Batches == UNION {[1..n -> BatchRequests] : n \in 1..MaxBatch}

NoRequest == [user_id |-> "", resource |-> <<>>, action |-> "", context |-> NoContext]

NotServed ==
    [request |-> NoRequest, decision |-> "NONE", reason_codes |-> <<>>, at |-> 0,
     cached |-> FALSE, stable |-> FALSE]

\* the PolicyCache of the current state
PC == [policy_cache |-> policy_cache, role_cache |-> role_cache,
       decision_cache |-> decision_cache]

Gets(c) == c.hits + c.misses

Cold(pc) ==
    /\ pc.policy_cache.cache = <<>>
    /\ pc.role_cache.cache = <<>>
    /\ pc.decision_cache.cache = <<>>

Assigned(ur) == Len(ur["u1"]) + Len(ur["u2"])

\* no HTTP answer (the call is no call of a route)
NoHttp == [status |-> 0, detail |-> "", body |-> NoResponse]

\* cold: the three caches were empty when the call was made; http: the
\* answer of the route
Last(op, request, outcome, cold, hit, response, rbac) ==
    [op |-> op, request |-> request, outcome |-> outcome, cold |-> cold, hit |-> hit,
     response |-> response, rbac |-> rbac, http |-> NoHttp]

\* the record of a call that is no authorization check
Idle(op, user_id, outcome) ==
    Last(op, [NoRequest EXCEPT !.user_id = user_id], outcome, FALSE, FALSE,
         NoResponse, NoRbac)

-----------------------------------------------------------------------------
(* Actions *)

\* the keys, values and ttl arguments of the calls on the stand-alone cache
LruKeys == {<<"a", ":", "1">>, <<"a", ":", "2">>, <<"b", ":", "1">>}
LruValues == {"v1", "v2"}
\* the keys and the ttl arguments (None, 0) of the calls that exercise expiry
TtlKeys == {<<"a", ":", "1">>, <<"a", ":", "2">>}
LruTtls == {NoneV, [type |-> "int", v |-> 0]}

\* no call has been made on the stand-alone cache
LruIdle ==
    [op |-> "init", key |-> <<>>, found |-> FALSE, value |-> NoValue, new |-> FALSE,
     full |-> FALSE, oldest |-> <<>>, removed |-> {},
     expired |-> FALSE, fresh |-> FALSE, hits |-> 0, misses |-> 0, gets |-> 0]

\* the key has never been set
NeverSet == [set |-> FALSE, at |-> 0, ttl |-> 0, value |-> NoValue]

\* no coroutine is suspended
NotSuspended == [pc |-> "idle", request |-> NoRequest, roles |-> <<>>, gw |-> GatewayUp]

\* the caches and the clock after construction, the stand-alone cache with
\* max_size
Constructed(max_size) ==
    /\ now = 0
    /\ policy_cache = PolicyCache(PolicyTTL, RoleTTL, DecisionTTL, MaxSize).policy_cache
    /\ role_cache = PolicyCache(PolicyTTL, RoleTTL, DecisionTTL, MaxSize).role_cache
    /\ decision_cache = PolicyCache(PolicyTTL, RoleTTL, DecisionTTL, MaxSize).decision_cache
    /\ user_roles = [u \in Users |-> <<>>]
    /\ served = NotServed
    /\ lru = LRUCache(max_size, DecisionTTL)
    /\ lruUsed = <<>>
    /\ lruLast = LruIdle
    /\ lruStored = [k \in LruKeys |-> NeverSet]
    /\ inflight = NotSuspended

\* the state after construction
InitWith(max_size) ==
    /\ Constructed(max_size)
    /\ last = Idle("init", "", "none")

Init == InitWith(LruMaxSize)

\* the keys of the conditions and of the context handed to ABACService
AbacKeys == {"ip_address", "level", "tags"}

\* contexts: each attribute absent (None) or present, and one context
\* without the keys level and tags
AbacContexts ==
    [ip_address : {NoneV, StrV(Ip1)},
     level : {NoneV, IntV(1), IntV(3), StrV(High)},
     tags : {NoneV, HighTags}]
      \cup {[ip_address |-> StrV(Ip1)]}

Operators ==
    {"eq", "ne", "gt", "gte", "lt", "lte", "in", "not_in", "contains", "regex",
     "null", "between"}

\* the expected values of {operator, value} maps
OperatorValues ==
    {NoneV, IntV(2), IntV(3), StrV(Ip10), StrV(OpenParen), StrV(High),
     ListV(<<StrV(Ip1), IntV(3)>>), ListV(<<>>)}

ComplexConditions ==
    {DictV(operator, value) : operator \in Operators, value \in OperatorValues}
      \cup {ValueOnly(IntV(3)), ValueOnly(NoneV)}

PlainConditions == {NoneV, IntV(3), StrV(Ip1), StrV(High), HighTags}

\* the expected values of the conditions maps with several keys
SomeConditions ==
    {StrV(Ip1), IntV(3), DictV("gt", IntV(2)), DictV("not_in", StrV(Ip10)),
     DictV("between", IntV(2))}

\* conditions maps in dict order: one condition of every kind, two or
\* MaxConditions conditions with the expected values of SomeConditions
MaxConditions == 3
ConditionMaps ==
    {<<>>}
      \cup {<<[key |-> k, expected |-> e]>> :
              k \in AbacKeys, e \in ComplexConditions \cup PlainConditions}
      \cup UNION {{cs \in [1..n -> [key : AbacKeys, expected : SomeConditions]] :
                     \A i, j \in 1..n : i # j => cs[i].key # cs[j].key} :
                  n \in 2..MaxConditions}

\* a call of EntityServiceClient._request about to be made, by a client
\* constructed with retry_attempts, and what its HTTP attempts will do
MaxRetryAttempts == 3
InitRequest ==
    /\ Constructed(LruMaxSize)
    /\ last \in [op : {"input"}, retry_attempts : 0..MaxRetryAttempts,
                  attempts : [1..MaxRetryAttempts -> AttemptOutcomes]]

\* a call of ABACService.evaluate_conditions about to be made
InitAbac ==
    /\ Constructed(LruMaxSize)
    /\ last \in [op : {"input"}, conditions : ConditionMaps, context : AbacContexts]

InitPattern == InitWith(PatternMaxSize)

\* the clock advances; responses served longer ago than the decision TTL
\* are forgotten
Tick ==
    /\ now + TickSeconds <= MaxNow
    /\ now' = now + TickSeconds
    /\ served' = IF now' - served.at > DecisionTTL THEN NotServed ELSE served
    /\ last' = Idle("tick", "", "none")
    /\ UNCHANGED <<inflight, policy_cache, role_cache, decision_cache, user_roles,
                   lru, lruUsed, lruLast, lruStored>>

\* the history of the first call after a check of request, which met gw
\* and returned r
Serve(request, gw, r) ==
    IF served = NotServed
    THEN IF r.outcome = "returned"
         THEN [request |-> request, decision |-> r.response.decision,
               reason_codes |-> r.response.reason_codes, at |-> now,
               cached |-> TRUE, stable |-> gw = GatewayUp]
         ELSE served
    ELSE [served EXCEPT
            !.cached = /\ @
                       /\ IF generate_decision_key(request)
                               = generate_decision_key(served.request)
                          THEN r.hit
                          ELSE decision_key_of(generate_decision_key(served.request))
                                 \in KeysOf(r.pc.decision_cache),
            !.stable = @ /\ gw = GatewayUp]

\* the answer of the route POST /api/v1/authz/check to the result r of
\* DecisionService.check_authorization
route_check_authorization(r) ==
    IF r.outcome = "raised"
    THEN [status |-> 500, detail |-> "Authorization check failed", body |-> NoResponse]
    ELSE [status |-> 200, detail |-> "", body |-> r.response]

\* one call of the route and of DecisionService.check_authorization, for a
\* request of Rs and a correlation id of cids; the gateway is drawn only
\* for a call that fetches, and the history of the first call is kept when
\* track holds.  header, error: the correlation id of the call and the
\* exception that ended it
Check(Rs, cids, max, track) ==
    /\ Gets(decision_cache) < max
    /\ \E request \in Rs, gw \in GatewayOutcomes, cid \in cids :
       \E r \in {check_authorization(PC, user_roles, now, request, gw, cid)} :
         /\ gw = GatewayUp \/ r.rbac.fetched
         /\ policy_cache' = r.pc.policy_cache
         /\ role_cache' = r.pc.role_cache
         /\ decision_cache' = r.pc.decision_cache
         /\ last' = [Last("check_authorization", request, r.outcome, Cold(PC),
                          r.hit, r.response, r.rbac)
                       EXCEPT !.http = route_check_authorization(r)]
                    @@ [header |-> cid, error |-> r.error, evaluation |-> r.evaluation]
         /\ served' = IF track THEN Serve(request, gw, r) ELSE served
    /\ UNCHANGED <<inflight, now, user_roles, lru, lruUsed, lruLast, lruStored>>

\* POST /api/v1/authz/check, any request, with no X-Correlation-ID header
CheckAuthorization == Check(Requests, {Uuid4Header}, MaxChecks, FALSE)

\* POST /api/v1/authz/check, the requests that read loan:1, with no
\* X-Correlation-ID header
CheckRead == Check(ReadRequests, {Uuid4Header}, MaxGets, TRUE)

\* POST /api/v1/authz/check, requests that differ in the context, with no
\* X-Correlation-ID header
CheckKeyRequest == Check(KeyRequests, {Uuid4Header}, MaxKeyChecks, TRUE)

\* POST /api/v1/authz/check, with any X-Correlation-ID header
CheckWithHeader == Check(RouteRequests, Headers, MaxChecks, FALSE)

\* POST /api/v1/authz/check:batch; checks, header: the request; status,
\* decisions: the answer; results: what each call of check_authorization
\* returned
BatchCheckAuthorization ==
    /\ Gets(decision_cache) < MaxChecks
    /\ \E checks \in Batches, gw \in GatewayOutcomes, cid \in Headers :
       \E b \in {batch_check_authorization(PC, user_roles, now, checks, gw, cid)} :
         /\ gw = GatewayUp \/ b.pc.role_cache.cache # role_cache.cache
         /\ policy_cache' = b.pc.policy_cache
         /\ role_cache' = b.pc.role_cache
         /\ decision_cache' = b.pc.decision_cache
         /\ last' = [Last("batch_check_authorization", NoRequest,
                          IF b.status = 200 THEN "returned" ELSE "raised",
                          Cold(PC), FALSE, NoResponse, NoRbac)
                       EXCEPT !.http = [status |-> b.status, detail |-> b.detail,
                                        body |-> NoResponse]]
                    @@ [checks |-> checks, header |-> cid,
                        decisions |-> b.decisions, results |-> b.results]
    /\ UNCHANGED <<inflight, now, user_roles, served, lru, lruUsed, lruLast, lruStored>>

\* the entity store is written by its own clients: a role is assigned
EntityStoreAssign ==
    /\ Assigned(user_roles) < MaxAssigned
    /\ \E u \in {"u1"}, r \in RoleIds :
         /\ user_roles' = StoreAssign(user_roles, u, r)
         /\ user_roles' # user_roles
         /\ last' = Idle("entity_store_assign", u, "none")
    /\ served' = IF served = NotServed THEN served ELSE [served EXCEPT !.stable = FALSE]
    /\ UNCHANGED <<inflight, now, policy_cache, role_cache, decision_cache,
                   lru, lruUsed, lruLast, lruStored>>

\* AssignmentService.assign_role_to_user
AssignRoleToUser ==
    /\ Assigned(user_roles) < MaxAssigned
    /\ \E u \in Users, r \in RoleIds, t \in Tenants, attempts \in {AllFail, LastOk} :
         LET assignment_dict == [role_id |-> UuidV(r), tenant_id |-> UuidV(t),
                                 valid_from |-> NoneV, valid_until |-> NoneV]
             ok == client_assign_ok(assignment_dict, attempts)
             pc == IF ok THEN clear_tenant(clear_user(PC, u), t) ELSE PC
         IN  /\ user_roles' = IF ok THEN StoreAssign(user_roles, u, r) ELSE user_roles
             /\ policy_cache' = pc.policy_cache
             /\ role_cache' = pc.role_cache
             /\ decision_cache' = pc.decision_cache
             /\ served' = IF ok THEN NotServed ELSE served
             /\ last' = Idle("assign_role_to_user", u, IF ok THEN "returned" ELSE "raised")
    /\ UNCHANGED <<inflight, now, lru, lruUsed, lruLast, lruStored>>

\* AssignmentService.revoke_role_from_user
RevokeRoleFromUser ==
    /\ \E u \in Users, r \in RoleIds, attempts \in {AllFail, LastOk} :
         LET success == client_revoke_ok(user_roles, u, r, attempts)
             pc == IF success THEN clear_user(PC, u) ELSE PC
         IN  /\ user_roles' = IF success THEN StoreRevoke(user_roles, u, r) ELSE user_roles
             /\ policy_cache' = pc.policy_cache
             /\ role_cache' = pc.role_cache
             /\ decision_cache' = pc.decision_cache
             /\ served' = IF success THEN NotServed ELSE served
             /\ last' = Idle("revoke_role_from_user", u, IF success THEN "revoked" ELSE "not_revoked")
    /\ UNCHANGED <<inflight, now, lru, lruUsed, lruLast, lruStored>>

\* EntityServiceClient._request(method, endpoint)
ClientRequest ==
    /\ last.op = "input"
    /\ \E r \in {client_request(last.attempts, last.retry_attempts)} :
         last' = [op |-> "_request", retry_attempts |-> last.retry_attempts,
                  attempts |-> last.attempts, result |-> r.result,
                  message |-> r.message, made |-> r.made, response |-> r.response]
    /\ UNCHANGED <<inflight, now, policy_cache, role_cache, decision_cache, user_roles,
                   served, lru, lruUsed, lruLast, lruStored>>

\* ABACService.evaluate_conditions(conditions, context)
EvaluateConditions ==
    /\ last.op = "input"
    /\ last' = [op |-> "evaluate_conditions", conditions |-> last.conditions,
                context |-> last.context,
                result |-> evaluate_conditions(last.conditions, last.context)]
    /\ UNCHANGED <<inflight, now, policy_cache, role_cache, decision_cache, user_roles,
                   served, lru, lruUsed, lruLast, lruStored>>

\* ABACService._evaluate_complex_condition(key, expected_value, actual_value)
\* as evaluate_conditions calls it for the first condition of the map
EvaluateComplexCondition ==
    /\ last.op = "input"
    /\ last.conditions # <<>>
    /\ last.conditions[1].expected.type = "dict"
    /\ \E key \in {last.conditions[1].key} :
       \E condition \in {last.conditions[1].expected.v},
          value \in {context_get(last.context, key)} :
         last' = [op |-> "_evaluate_complex_condition", key |-> key,
                  condition |-> condition, value |-> value,
                  result |-> complex_condition(key, condition, value)]
    /\ UNCHANGED <<inflight, now, policy_cache, role_cache, decision_cache, user_roles,
                   served, lru, lruUsed, lruLast, lruStored>>

\* PolicyCache.clear_all, as PermissionService calls it after a write
ClearAll ==
    /\ policy_cache' = clear_all(PC).policy_cache
    /\ role_cache' = clear_all(PC).role_cache
    /\ decision_cache' = clear_all(PC).decision_cache
    /\ served' = NotServed
    /\ last' = Idle("clear_all", "", "returned")
    /\ UNCHANGED <<inflight, now, user_roles, lru, lruUsed, lruLast, lruStored>>

-----------------------------------------------------------------------------
(* The stand-alone LRUCache: every method, on keys that the patterns tell   *)
(* apart.                                                                   *)

LruPatterns ==
    {<<"a", ":", "*">>, <<"*", ":", "1">>, <<"a", "*", "1">>, <<"b", ":", "1">>,
     <<"a", "*", "1", "*">>, <<"a", "*", "*", "1">>, <<"*">>}

\* the history of sets without the keys that have left the cache
Forget(stored, keys) == [k \in LruKeys |-> IF k \in keys THEN NeverSet ELSE stored[k]]

\* the history of uses without some keys
Unused(used, keys) == SelectSeq(used, LAMBDA k : k \notin keys)

\* key: the key or pattern of the call; found: a get returned a value;
\* value: the value returned; new: a set of a key that was not stored;
\* full: the cache held max_size entries before the call; oldest: the key
\* whose most recent use was the oldest before the call; removed: the
\* keys the call took out of the cache; expired: the key had an entry
\* before the call, with an expiry earlier than the time of the call;
\* fresh: the call is made at most its ttl after the latest set of the key;
\* hits, misses: the counters before the call; gets: the calls of get
\* since the last call of clear, this call included
LruCall(op, key, c, found, value) ==
    [op |-> op, key |-> key, found |-> found, value |-> value,
     new |-> op = "set" /\ key \notin KeysOf(lru),
     full |-> Len(lru.cache) = lru.max_size,
     oldest |-> IF lruUsed = <<>> THEN <<>> ELSE Head(lruUsed),
     removed |-> KeysOf(lru) \ KeysOf(c),
     expired |-> key \in KeysOf(lru) /\ EntryOf(lru, key).expiry < now,
     fresh |-> /\ key \in LruKeys /\ lruStored[key].set
               /\ now <= lruStored[key].at + lruStored[key].ttl,
     hits |-> lru.hits, misses |-> lru.misses,
     gets |-> IF op = "clear" THEN 0
              ELSE IF op = "get" THEN lruLast.gets + 1
              ELSE lruLast.gets]

\* LRUCache.get of one of keys
LruGetOf(keys) ==
    /\ Gets(lru) < MaxLruGets
    /\ \E key \in keys :
         LET got == LRUCache_get(lru, key, now)
         IN  /\ lru' = got.c
             /\ lruUsed' = IF got.found
                           THEN Append(Unused(lruUsed, {key}), key)
                           ELSE Unused(lruUsed, {key})
             /\ lruLast' = LruCall("get", key, got.c, got.found, got.value)
             /\ lruStored' = IF got.found THEN lruStored ELSE Forget(lruStored, {key})
    /\ UNCHANGED <<inflight, now, policy_cache, role_cache, decision_cache, user_roles, last, served>>

LruGet == LruGetOf(LruKeys)

TtlGet == LruGetOf(TtlKeys)

\* LRUCache.set of one of keys, with one of ttls as the ttl argument
LruSetOf(keys, ttls) ==
    /\ \E key \in keys, value \in LruValues, ttl \in ttls :
         LET c == IF ttl = NoneV
                  THEN LRUCache_set(lru, key, value, now)
                  ELSE LRUCache_set_ttl(lru, key, value, ttl.v, now)
         IN  /\ lru' = c
             /\ lruUsed' = Append(Unused(lruUsed, (KeysOf(lru) \ KeysOf(c)) \cup {key}), key)
             /\ lruLast' = LruCall("set", key, c, FALSE, NoValue)
             /\ lruStored' = [Forget(lruStored, KeysOf(lru) \ KeysOf(c)) EXCEPT ![key] =
                                [set |-> TRUE, at |-> now,
                                 ttl |-> IF ttl = NoneV THEN lru.default_ttl ELSE ttl.v,
                                 value |-> value]]
    /\ UNCHANGED <<inflight, now, policy_cache, role_cache, decision_cache, user_roles, last, served>>

LruSet == LruSetOf(LruKeys, {NoneV})

TtlSet == LruSetOf(TtlKeys, LruTtls)

LruDelete ==
    /\ \E key \in LruKeys :
         /\ lru' = LRUCache_delete(lru, key)
         /\ lruUsed' = Unused(lruUsed, {key})
         /\ lruLast' = LruCall("delete", key, lru', FALSE, NoValue)
         /\ lruStored' = Forget(lruStored, {key})
    /\ UNCHANGED <<inflight, now, policy_cache, role_cache, decision_cache, user_roles, last, served>>

LruClear ==
    /\ lru' = LRUCache_clear(lru)
    /\ lruUsed' = <<>>
    /\ lruLast' = LruCall("clear", <<>>, lru', FALSE, NoValue)
    /\ lruStored' = Forget(lruStored, LruKeys)
    /\ UNCHANGED <<inflight, now, policy_cache, role_cache, decision_cache, user_roles, last, served>>

LruClearPattern ==
    /\ \E pattern \in LruPatterns :
         /\ lru' = LRUCache_clear_pattern(lru, pattern)
         /\ lruUsed' = Unused(lruUsed, KeysOf(lru) \ KeysOf(lru'))
         /\ lruLast' = LruCall("clear_pattern", pattern, lru', FALSE, NoValue)
         /\ lruStored' = Forget(lruStored, KeysOf(lru) \ KeysOf(lru'))
    /\ UNCHANGED <<inflight, now, policy_cache, role_cache, decision_cache, user_roles, last, served>>

\* the clock of the stand-alone cache
LruTick ==
    /\ now + TickSeconds <= MaxNow
    /\ now' = now + TickSeconds
    /\ UNCHANGED <<inflight, policy_cache, role_cache, decision_cache, user_roles, last, served,
                   lru, lruUsed, lruLast, lruStored>>

-----------------------------------------------------------------------------
(* The PolicyCache facade and RBACService.get_user_roles, called with a     *)
(* tenant.                                                                  *)

TenantPolicies == <<"p1">>

\* the record of a call on the facade for a user or a tenant
FacadeCall(op, user_id, tenant_id, outcome) ==
    Last(op, [NoRequest EXCEPT !.user_id = user_id,
                               !.context.tenant_id = StrV(tenant_id)],
         outcome, FALSE, FALSE, NoResponse, NoRbac)

\* PolicyCache.set_tenant_policies
SetTenantPolicies ==
    /\ \E t \in Tenants :
         /\ policy_cache' = LRUCache_set(policy_cache, tenant_policies_key(t),
                                         TenantPolicies, now)
         /\ last' = FacadeCall("set_tenant_policies", "", t, "returned")
    /\ UNCHANGED <<inflight, now, role_cache, decision_cache, user_roles, served,
                   lru, lruUsed, lruLast, lruStored>>

\* PolicyCache.get_tenant_policies
GetTenantPolicies ==
    /\ Gets(policy_cache) < MaxFacadeGets
    /\ \E t \in Tenants :
         LET got == LRUCache_get(policy_cache, tenant_policies_key(t), now)
         IN  /\ policy_cache' = got.c
             /\ last' = FacadeCall("get_tenant_policies", "", t,
                                   IF got.found THEN "hit" ELSE "miss")
    /\ UNCHANGED <<inflight, now, role_cache, decision_cache, user_roles, served,
                   lru, lruUsed, lruLast, lruStored>>

\* RBACService.get_user_roles(user_id, tenant_id)
GetUserRoles ==
    /\ Gets(role_cache) < MaxFacadeGets
    /\ \E u \in Users, t \in Tenants, gw \in GatewayOutcomes :
       \E r \in {get_user_roles(PC, user_roles, now, u, t, gw)} :
         /\ gw = GatewayUp \/ r.fetched
         /\ role_cache' = r.pc.role_cache
         /\ last' = FacadeCall("get_user_roles", u, t,
                               IF r.fetched THEN "miss" ELSE "hit")
    /\ UNCHANGED <<inflight, now, policy_cache, decision_cache, user_roles, served,
                   lru, lruUsed, lruLast, lruStored>>

\* PolicyCache.clear_tenant, as PolicyService and RoleService call it after
\* a write
ClearTenant ==
    /\ \E t \in Tenants :
         /\ policy_cache' = clear_tenant(PC, t).policy_cache
         /\ role_cache' = clear_tenant(PC, t).role_cache
         /\ decision_cache' = clear_tenant(PC, t).decision_cache
         /\ last' = FacadeCall("clear_tenant", "", t, "returned")
    /\ UNCHANGED <<inflight, now, user_roles, served, lru, lruUsed, lruLast, lruStored>>

Next ==
    \/ CheckAuthorization
    \/ EntityStoreAssign
    \/ AssignRoleToUser
    \/ RevokeRoleFromUser
    \/ ClearAll

\* the evaluation pipeline at one instant
Spec == Init /\ [][Next]_vars

NextCaching ==
    \/ Tick
    \/ CheckRead
    \/ EntityStoreAssign
    \/ RevokeRoleFromUser
    \/ ClearAll

\* repeated checks of one resource over time
SpecCaching == Init /\ [][NextCaching]_vars

NextKeys ==
    \/ Tick
    \/ CheckKeyRequest
    \/ EntityStoreAssign
    \/ ClearAll

\* checks of requests that share a decision key, over time
SpecKeys == Init /\ [][NextKeys]_vars

NextRoutes ==
    \/ CheckWithHeader
    \/ BatchCheckAuthorization
    \/ EntityStoreAssign
    \/ ClearAll

\* the two authorization routes, with and without a correlation header
SpecRoutes == Init /\ [][NextRoutes]_vars

NextLRU ==
    \/ LruTick
    \/ LruGet
    \/ LruSet
    \/ LruDelete
    \/ LruClear
    \/ LruClearPattern

\* every method of one LRUCache
SpecLRU == Init /\ [][NextLRU]_vars

NextTTL ==
    \/ LruTick
    \/ TtlGet
    \/ TtlSet
    \/ LruDelete
    \/ LruClear

\* sets with and without a ttl argument, and gets, as time passes
SpecTTL == Init /\ [][NextTTL]_vars

-----------------------------------------------------------------------------
(* check_authorization as the event loop runs it.  A call that misses the   *)
(* decision cache and the role cache is suspended at each await of a        *)
(* gateway call, and other handlers run meanwhile.                          *)

MaxInFlight == 3

\* the rest of check_authorization once the gateway has answered the role
\* fetch with fetched_roles: the enrichment, set_user_roles, the scan of
\* has_permission, steps 2 and 3 of _evaluate, the response and set_decision
resume_check_authorization(pc, t, request, fetched_roles, gw, correlation_id) ==
    Only({Only({Only({miss_result(ev, decision_key_of(generate_decision_key(request)),
                                  t, correlation_id) :
                      ev \in {evaluate_after_rbac(
                                 [pc |-> r.pc, roles |-> r.roles, fetched |-> r.fetched,
                                  fetch_ok |-> r.fetch_ok, allowed |-> s.allowed,
                                  reasons |-> s.reasons], request)}}) :
                s \in {scan_roles(r.roles, resource_type_of(request.resource),
                                  request.action)}}) :
          r \in {roles_after_get(pc, [found |-> FALSE, c |-> pc.role_cache],
                                 user_roles_key(request.user_id, "all"), t,
                                 fetched_roles, gw)}})

\* the suspended call runs to its end with the role list fetched_roles;
\* invalidated: the handler that ran just before, while the call was
\* suspended, cleared the caches (clear_all) or the user's entries
\* (clear_user after a revocation)
Resume(fetched_roles) ==
    \E r \in {resume_check_authorization(PC, now, inflight.request, fetched_roles,
                                         inflight.gw, Uuid4Header)} :
        /\ policy_cache' = r.pc.policy_cache
        /\ role_cache' = r.pc.role_cache
        /\ decision_cache' = r.pc.decision_cache
        /\ last' = Last("check_authorization", inflight.request, r.outcome, Cold(PC),
                        r.hit, r.response, r.rbac)
                   @@ [header |-> Uuid4Header, error |-> r.error,
                       evaluation |-> r.evaluation,
                       invalidated |->
                           \/ last.op = "clear_all"
                           \/ /\ last.op = "revoke_role_from_user"
                              /\ last.outcome = "revoked"
                              /\ last.request.user_id = inflight.request.user_id]
        /\ inflight' = NotSuspended

\* check_authorization up to its first suspension: the decision cache and
\* the role cache miss, and the role fetch is sent to the gateway
BeginCheck ==
    /\ inflight.pc = "idle"
    /\ Gets(decision_cache) < MaxInFlight
    /\ \E request \in ReadRequests, gw \in GatewayOutcomes :
       \E dgot \in {LRUCache_get(decision_cache,
                                  decision_key_of(generate_decision_key(request)), now)},
          rgot \in {LRUCache_get(role_cache, user_roles_key(request.user_id, "all"), now)} :
         /\ ~dgot.found /\ ~rgot.found
         /\ decision_cache' = dgot.c
         /\ role_cache' = rgot.c
         /\ inflight' = [pc |-> "get_user_roles", request |-> request,
                         roles |-> <<>>, gw |-> gw]
         /\ last' = Idle("await_get_user_roles", request.user_id, "none")
    /\ UNCHANGED <<now, policy_cache, user_roles, served,
                   lru, lruUsed, lruLast, lruStored>>

\* the gateway answers the role fetch with the roles the entity store holds
\* now.  With no role the call runs to its end; otherwise it is suspended
\* again, on the permission fetch of the enrichment loop
RolesReturned ==
    /\ inflight.pc = "get_user_roles"
    /\ \E fetched_roles \in {client_get_user_roles(user_roles, inflight.request.user_id,
                                                    PyNone, inflight.gw.roles)} :
         IF fetched_roles = <<>>
         THEN Resume(fetched_roles)
         ELSE /\ inflight' = [inflight EXCEPT !.pc = "get_role_permissions",
                                              !.roles = fetched_roles]
              /\ last' = Idle("await_get_role_permissions",
                              inflight.request.user_id, "none")
              /\ UNCHANGED <<policy_cache, role_cache, decision_cache>>
    /\ UNCHANGED <<now, user_roles, served, lru, lruUsed, lruLast, lruStored>>

\* the gateway answers the permission fetches, and the call runs to its end
PermissionsReturned ==
    /\ inflight.pc = "get_role_permissions"
    /\ Resume(inflight.roles)
    /\ UNCHANGED <<now, user_roles, served, lru, lruUsed, lruLast, lruStored>>

NextInFlight ==
    \/ BeginCheck
    \/ RolesReturned
    \/ PermissionsReturned
    \/ EntityStoreAssign
    \/ RevokeRoleFromUser
    \/ ClearAll

\* one check_authorization in flight, with role changes and invalidations
\* by other handlers
SpecInFlight == Init /\ [][NextInFlight]_vars

\* the retry loop of the entity service client
SpecRequest == InitRequest /\ [][ClientRequest]_vars

NextAbac ==
    \/ EvaluateConditions
    \/ EvaluateComplexCondition

\* the ABAC evaluator applied to conditions maps and contexts
SpecAbac == InitAbac /\ [][NextAbac]_vars

NextPattern ==
    \/ LruSet
    \/ LruGet
    \/ LruClearPattern

\* clear_pattern on a cache that can hold every key
SpecPattern == InitPattern /\ [][NextPattern]_vars

NextFacade ==
    \/ SetTenantPolicies
    \/ GetTenantPolicies
    \/ GetUserRoles
    \/ ClearTenant
    \/ EntityStoreAssign
    \/ ClearAll

\* the tenant-scoped entries of the caches
SpecFacade == Init /\ [][NextFacade]_vars

-----------------------------------------------------------------------------
(* Properties *)

\* the last call was a check_authorization that returned after a miss of
\* the decision cache
MissReturned ==
    /\ last.op = "check_authorization"
    /\ last.outcome = "returned"
    /\ ~last.hit

\* C1: RBAC is the default-deny gate.  A check_authorization call that
\* misses the decision cache returns ALLOW only if has_permission returned
\* true for the request, and returns DENY whenever has_permission returned
\* false, whoever owns the resource and whatever the context holds.
C1_RbacGate ==
    MissReturned =>
        /\ last.response.decision = "ALLOW" => last.rbac.called /\ last.rbac.allowed
        /\ last.rbac.called /\ ~last.rbac.allowed => last.response.decision = "DENY"

\* C1 witness: the subject owns the resource, RBAC fails, the call denies
C1_Witness ==
    /\ MissReturned
    /\ last.request.context.resource_owner_id = UuidV(last.request.user_id)
    /\ last.rbac.called /\ ~last.rbac.allowed
    /\ last.response.decision = "DENY"

\* the decision cache serves an entry for the request at the current time
DecisionServed(request) ==
    LRUCache_get(decision_cache, decision_key_of(generate_decision_key(request)), now).found

\* the role cache serves a role list for the user at the current time
RolesServed(user_id) ==
    \E tenant_id \in {"all"} \cup Tenants :
        LRUCache_get(role_cache, user_roles_key(user_id, tenant_id), now).found

\* C2: user invalidation is eager.  When revoke_role_from_user has called
\* clear_user(U), the caches serve no role list of U and no decision for a
\* request of U, so that the next check_authorization of U misses.
C2_UserInvalidation ==
    last.op = "revoke_role_from_user" /\ last.outcome = "revoked" =>
        /\ ~RolesServed(last.request.user_id)
        /\ \A request \in Requests :
             request.user_id = last.request.user_id => ~DecisionServed(request)

\* C7: when the gateway call for the user's roles fails on every retry,
\* get_user_roles returns the empty list and has_permission returns
\* (false, ["NO_ROLES"]); nothing is raised, and the check returns DENY.
C7_GatewayFailure ==
    last.op = "check_authorization" /\ last.rbac.fetched /\ ~last.rbac.fetch_ok =>
        /\ last.rbac.called
        /\ last.rbac.roles = <<>>
        /\ ~last.rbac.allowed
        /\ last.rbac.reasons = <<"NO_ROLES">>
        /\ last.outcome = "returned"
        /\ last.response.decision = "DENY"

\* C7 witness: the role fetch of a user who holds a role in the entity store
\* fails on every retry
C7_Witness ==
    /\ last.op = "check_authorization"
    /\ last.rbac.fetched /\ ~last.rbac.fetch_ok
    /\ user_roles[last.request.user_id] # <<>>
    /\ last.rbac.reasons = <<"NO_ROLES">>

\* the permission that has_permission matched for the last request
MatchedPermission ==
    LET m == FirstMatch(last.rbac.roles, resource_type_of(last.request.resource),
                        last.request.action)
    IN  last.rbac.roles[m[1]].permissions[m[2]]

Contains(seq, x) == \E i \in 1..Len(seq) : seq[i] = x

\* C4: on a miss of the decision cache where RBAC passes, when the context
\* does not satisfy the conditions of the matched permission the call
\* returns DENY with the ABAC_CONDITION_FAILED_<KEY> reason code, has
\* "abac_policy" among the evaluated policies and skips the ownership step.
C4_AbacDenies ==
    (/\ MissReturned
     /\ last.rbac.allowed
     /\ ~evaluate_conditions(MatchedPermission.conditions, last.request.context).matched)
    => /\ last.response.decision = "DENY"
       /\ Contains(last.response.reason_codes,
                   evaluate_conditions(MatchedPermission.conditions,
                                       last.request.context).reasons[1])
       /\ Contains(last.response.evaluated_policies, "abac_policy")
       /\ ~Contains(last.response.evaluated_policies, "ownership_policy")

\* the entity store assigns user_id a role of the tenant that grants
\* (resource_type, action)
StoreGrants(user_id, tenant_id, resource_type, action) ==
    \E i \in 1..Len(user_roles[user_id]) :
        LET r == user_roles[user_id][i]
        IN  /\ RoleTenant(r) = tenant_id
            /\ \E j \in 1..Len(StorePermissions(r)) :
                 /\ StorePermissions(r)[j].resource_type = resource_type
                 /\ StorePermissions(r)[j].action = action

\* C5: when user U holds, for tenant T, a role with a permission (loan,
\* read), check_authorization of (U, "loan:1", read, tenant_id = T) on a
\* cold cache returns ALLOW, and its reason codes hold RBAC_MATCH followed
\* by ROLE_<upper-cased name of a role of U>.
C5_RbacMatchAllows ==
    (/\ last.op = "check_authorization"
     /\ last.cold
     /\ last.request.resource = LoanOne
     /\ last.request.action = "read"
     /\ last.request.context.tenant_id = UuidV("t1")
     /\ StoreGrants(last.request.user_id, "t1", "loan", "read"))
    => /\ last.outcome = "returned"
       /\ last.response.decision = "ALLOW"
       /\ \E i \in 1..(Len(last.response.reason_codes) - 1) :
            /\ last.response.reason_codes[i] = "RBAC_MATCH"
            /\ \E j \in 1..Len(user_roles[last.request.user_id]) :
                 last.response.reason_codes[i + 1]
                   = "ROLE_" \o upper(RoleName(user_roles[last.request.user_id][j]))

\* C6: for a user without roles, a check_authorization that evaluates the
\* request returns DENY with NO_ROLES among the reason codes, whatever the
\* resource, the action and the context.
C6_DefaultDeny ==
    (/\ last.op = "check_authorization"
     /\ ~last.hit
     /\ user_roles[last.request.user_id] = <<>>)
    => /\ last.outcome = "returned"
       /\ last.response.decision = "DENY"
       /\ Contains(last.response.reason_codes, "NO_ROLES")

\* the last call returned a response to the request of the first call
\* since the last invalidation, at most one decision TTL after it
SecondCall ==
    /\ last.op = "check_authorization"
    /\ last.outcome = "returned"
    /\ served # NotServed
    /\ last.request = served.request

SameAsFirst ==
    /\ last.response.decision = served.decision
    /\ last.response.reason_codes = served.reason_codes

\* C8 as stated: two check_authorization(R) calls within the decision TTL,
\* with no invalidation between them and one state of the gateway, return
\* the same decision and the same reason codes, whatever other requests
\* are evaluated between the two.
C8_Idempotent ==
    SecondCall /\ served.stable => SameAsFirst

\* C8: two check_authorization(R) calls within the decision TTL, with no
\* invalidation between them, return the same decision and the same reason
\* codes as long as the decision cache keeps the entry that the first call
\* wrote or read: until the entry expires, one TTL after it was written,
\* or is evicted by the entries of other requests.
C8_IdempotentWhileCached ==
    SecondCall /\ served.cached => SameAsFirst

\* C8 witness: a later call repeats the denial of the first although the
\* user has been given a role since
C8_Witness ==
    /\ SecondCall /\ served.cached
    /\ last.hit
    /\ now > served.at
    /\ served.decision = "DENY"
    /\ user_roles[last.request.user_id] # <<>>

\* C9: capacity.  Whatever get, set, delete, clear and clear_pattern calls
\* are made on an initially empty LRUCache, it never stores more than
\* max_size entries.
C9_Capacity ==
    Len(lru.cache) <= lru.max_size

\* C9 witness: a new key has been set into a full cache
C9_Witness ==
    /\ lruLast.op = "set" /\ lruLast.new /\ lruLast.full
    /\ Len(lru.cache) = lru.max_size

\* C10: LRU eviction.  A set of a new key into a cache that holds max_size
\* entries removes exactly one entry, the one whose most recent set or live
\* get-hit is the oldest, and keeps every other entry beside the new one.
C10_LruEviction ==
    lruLast.op = "set" /\ lruLast.new /\ lruLast.full =>
        /\ lruLast.removed = {lruLast.oldest}
        /\ lruLast.key \in KeysOf(lru)
        /\ Len(lru.cache) = lru.max_size

\* C10 witness: after a hit on a:1, the set of b:1 into the full cache
\* evicts a:2 and keeps a:1
C10_Witness ==
    /\ lruLast.op = "set" /\ lruLast.new /\ lruLast.full
    /\ lruLast.key = <<"b", ":", "1">>
    /\ lru.hits = 1 /\ lru.misses = 0
    /\ lruLast.removed = {<<"a", ":", "2">>}
    /\ KeysOf(lru) = {<<"a", ":", "1">>, <<"b", ":", "1">>}

\* the key embeds the identifier
Embeds(key, id) == \E i \in 1..Len(key) : key[i] = id

\* the three caches of the facade
Caches == {policy_cache, role_cache, decision_cache}

\* C3: tenant invalidation.  When clear_tenant(T) has returned, a get of a
\* key that embeds T (tenant_policies:T, user_roles:<user>:T) is a miss in
\* the policy cache, in the role cache and in the decision cache.
C3_TenantInvalidation ==
    last.op = "clear_tenant" =>
        \A c \in Caches : \A key \in KeysOf(c) :
            Embeds(key, str(last.request.context.tenant_id))
                => ~LRUCache_get(c, key, now).found

\* C11: TTL safety.  A get of a key whose entry has an expiry earlier than
\* the time of the call returns no value, deletes the entry and counts one
\* miss and no hit; and a get that returns a value returns the value of the
\* latest set of the key, at most its ttl after that set.
C11_TtlSafety ==
    lruLast.op = "get" =>
        /\ lruLast.expired =>
              /\ ~lruLast.found
              /\ lruLast.key \notin KeysOf(lru)
              /\ lru.misses = lruLast.misses + 1
              /\ lru.hits = lruLast.hits
        /\ lruLast.found =>
              /\ lruStored[lruLast.key].set
              /\ lruLast.value = lruStored[lruLast.key].value
              /\ lruLast.fresh

\* C11 witness: a get of an entry that was stored with the default ttl and
\* has expired
C11_Witness ==
    /\ lruLast.op = "get" /\ lruLast.expired
    /\ lru.misses = 1 /\ lru.hits = 1
    /\ ~lruLast.found

\* C12: an entry stored with ttl=0 is a miss on the very next get of its
\* key, however little time has passed since the set.  (A miss deletes the
\* entry, so a get that returns a value stored with ttl=0 follows only hits
\* of that entry, and the first of them is the very next get after the set.)
C12_ZeroTtlMiss ==
    lruLast.op = "get" /\ lruStored[lruLast.key].set /\ lruStored[lruLast.key].ttl = 0 =>
        ~lruLast.found


\* the positions of "*" in a pattern
StarAt(p) == {i \in 1..Len(p) : p[i] = "*"}

\* the keys before the last call, a clear_pattern
KeysBefore == KeysOf(lru) \cup lruLast.removed

\* every entry left is the entry that the latest set of its key stored
EntriesKept ==
    \A k \in KeysOf(lru) :
        /\ lruStored[k].set
        /\ EntryOf(lru, k).value = lruStored[k].value
        /\ EntryOf(lru, k).expiry = lruStored[k].at + lruStored[k].ttl

\* the rule of the claim as stated: the embedded rule applies to a pattern
\* with a single "*", any other pattern is matched whole
SelectedAsStated(p, k) ==
    IF p # <<>> /\ p[Len(p)] = "*" THEN startswith(k, SubSeq(p, 1, Len(p) - 1))
    ELSE IF p # <<>> /\ p[1] = "*" THEN endswith(k, SubSeq(p, 2, Len(p)))
    ELSE IF Cardinality(StarAt(p)) = 1
    THEN \E i \in StarAt(p) : /\ startswith(k, SubSeq(p, 1, i - 1))
                              /\ endswith(k, SubSeq(p, i + 1, Len(p)))
    ELSE k = p

\* the rule with the embedded case applied to every pattern that contains
\* "*": the text before the first "*" and the text between the first "*"
\* and the next one (or the end of the pattern)
SelectedByFirstStar(p, k) ==
    IF p # <<>> /\ p[Len(p)] = "*" THEN startswith(k, SubSeq(p, 1, Len(p) - 1))
    ELSE IF p # <<>> /\ p[1] = "*" THEN endswith(k, SubSeq(p, 2, Len(p)))
    ELSE IF StarAt(p) # {}
    THEN \E i \in StarAt(p), j \in (StarAt(p) \cup {Len(p) + 1}) :
            /\ \A x \in StarAt(p) : i <= x
            /\ i < j /\ \A x \in StarAt(p) : x <= i \/ j <= x
            /\ startswith(k, SubSeq(p, 1, i - 1))
            /\ endswith(k, SubSeq(p, i + 1, j - 1))
    ELSE k = p

\* C13 as stated: clear_pattern(p) deletes exactly the keys selected by the
\* first applicable rule (trailing "*": prefix; leading "*": suffix; a
\* single embedded "*": prefix and suffix; otherwise the key equal to p)
\* and keeps every other entry.
C13_PatternAsStated ==
    lruLast.op = "clear_pattern" =>
        /\ lruLast.removed = {k \in KeysBefore : SelectedAsStated(lruLast.key, k)}
        /\ EntriesKept

\* C13, amended: the same, with the third rule applied to every pattern
\* that contains "*" and neither ends nor starts with it: the keys that
\* start with the text before the first "*" and end with the text between
\* the first "*" and the next one (the rest of the pattern when there is a
\* single "*"); the exact rule applies to patterns without "*".
C13_PatternRules ==
    lruLast.op = "clear_pattern" =>
        /\ lruLast.removed = {k \in KeysBefore : SelectedByFirstStar(lruLast.key, k)}
        /\ EntriesKept

\* C13 witness: with a:1, a:2 and b:1 stored, clear_pattern("a:*") removes
\* the first two and keeps the third
C13_Witness ==
    /\ lruLast.op = "clear_pattern" /\ lruLast.key = <<"a", ":", "*">>
    /\ lruLast.removed = {<<"a", ":", "1">>, <<"a", ":", "2">>}
    /\ KeysOf(lru) = {<<"b", ":", "1">>}

\* the entries of a cache whose key embeds the tenant
TenantEntries(c, tenant_id) ==
    {c.cache[i] : i \in {j \in 1..Len(c.cache) : Embeds(c.cache[j].key, tenant_id)}}

\* the entries of tenant_id in the cache before are entries of the cache
\* after, and a get of a live one is a hit that returns its value
KeptFor(before, after, tenant_id, t) ==
    \A e \in TenantEntries(before, tenant_id) :
        /\ e \in TenantEntries(after, tenant_id)
        /\ LRUCache_get(before, e.key, t).found =>
              /\ LRUCache_get(after, e.key, t).found
              /\ LRUCache_get(after, e.key, t).value = e.value

\* C14: tenant invalidation scope.  A call clear_tenant(T1) leaves every
\* entry whose key embeds another tenant T2 (user_roles:<user>:T2,
\* tenant_policies:T2) in place with the same value and expiry, in the
\* policy cache, the role cache and the decision cache, and a get of it
\* afterwards is still a hit that returns the same value.
C14_TenantScope ==
    [][ClearTenant =>
         \A t2 \in Tenants \ {str(last'.request.context.tenant_id)} :
            /\ KeptFor(policy_cache, policy_cache', t2, now')
            /\ KeptFor(role_cache, role_cache', t2, now')
            /\ KeptFor(decision_cache, decision_cache', t2, now')]_vars

\* C14 witness: clear_tenant(t1) has returned and the policy list and a
\* role list of tenant t2 are still cached
C14_Witness ==
    /\ last.op = "clear_tenant" /\ str(last.request.context.tenant_id) = "t1"
    /\ TenantEntries(policy_cache, "t2") # {}
    /\ TenantEntries(role_cache, "t2") # {}
    /\ LRUCache_get(policy_cache, tenant_policies_key("t2"), now).found

\* decision i of the last batch is the outcome of check i: the decision
\* that check_authorization returned, or DENY with EVALUATION_ERROR when it
\* raised
OutcomeOf(i) ==
    /\ last.decisions[i].request_index = i - 1
    /\ IF last.results[i].outcome = "raised"
       THEN /\ last.decisions[i].decision = "DENY"
            /\ last.decisions[i].reason_codes = <<"EVALUATION_ERROR">>
       ELSE /\ last.decisions[i].decision = last.results[i].response.decision
            /\ last.decisions[i].reason_codes = last.results[i].response.reason_codes

\* C15: batch resilience.  batch_check_authorization over n checks returns
\* exactly n decisions; decision i carries request_index i and is the
\* outcome of check i, DENY with EVALUATION_ERROR when check i raised; and
\* every check of the batch is evaluated.
C15_BatchResilience ==
    last.op = "batch_check_authorization" =>
        /\ last.http.status = 200
        /\ Len(last.decisions) = Len(last.checks)
        /\ Len(last.results) = Len(last.checks)
        /\ \A i \in 1..Len(last.checks) : OutcomeOf(i)

\* the same for the batches sent with no X-Correlation-ID header or with a
\* header that is a version-4 UUID
BatchResilienceWithUuid4Header ==
    last.op = "batch_check_authorization" /\ last.header = Uuid4Header =>
        /\ last.http.status = 200
        /\ Len(last.decisions) = Len(last.checks)
        /\ Len(last.results) = Len(last.checks)
        /\ \A i \in 1..Len(last.checks) : OutcomeOf(i)

\* a batch of three checks whose second check raised and whose first and
\* third checks were evaluated
BatchOfThree ==
    /\ last.op = "batch_check_authorization" /\ last.header = Uuid4Header
    /\ Len(last.checks) = 3
    /\ last.results[1].outcome = "returned" /\ last.results[1].response.decision = "ALLOW"
    /\ last.results[2].outcome = "raised"
    /\ last.results[3].outcome = "returned"

\* C16 witness: a read that RBAC allows ends with an exception, and the
\* role list it fetched is cached
C16_Witness ==
    /\ last.op = "check_authorization" /\ ~last.hit /\ last.error = "ValidationError"
    /\ last.rbac.allowed
    /\ last.http.status = 500
    /\ role_cache.cache # <<>>

\* C16: a single failure is fail-closed.  When a check_authorization call
\* that missed the decision cache ends with an exception, no decision is
\* returned, the route answers 500 with the generic detail and no body, and
\* the decision cache holds no entry under the key of the request.
C16_FailClosed ==
    last.op = "check_authorization" /\ ~last.hit /\ last.error # "" =>
        /\ last.outcome = "raised"
        /\ last.response = NoResponse
        /\ last.http = [status |-> 500, detail |-> "Authorization check failed",
                        body |-> NoResponse]
        /\ decision_key_of(generate_decision_key(last.request))
              \notin KeysOf(decision_cache)

\* requests with which the request of a check is compared: two users, resources
\* with and without ":", two actions, every kind of context
KeyDomain ==
    {Request(u, r, a, c) :
        u \in Users, r \in {LoanOne, DocTwo, <<"loan">>, <<"loan", ":", "read">>},
        a \in {"read", "create"},
        c \in {NullContext, NoContext, IpContext, OwnerContext, TenantContext,
               [TenantContext EXCEPT !.tenant_id = UuidV("t2")],
               [TenantContext EXCEPT !.ip_address = StrV(Ip1)]}}

\* the four fields of the claim
KeyFields(request) ==
    <<request.user_id, request.resource, request.action, request.context.tenant_id>>

\* the last call is a check, made while the response to the first request
\* is remembered, of another request that agrees with the first on the
\* four fields
StatedCollision ==
    /\ last.op = "check_authorization"
    /\ served # NotServed
    /\ last.request # served.request
    /\ KeyFields(last.request) = KeyFields(served.request)

\* ... and on having a context object
CollidingCall ==
    /\ StatedCollision
    /\ last.request.context.is_none = served.request.context.is_none

\* the last call was answered with the decision of the first
AnsweredAsFirst ==
    /\ last.outcome = "returned"
    /\ last.response.decision = served.decision
    /\ last.response.reason_codes = served.reason_codes

\* C17 as stated: the request of a check and any other request have the
\* same decision key if and only if they agree on user_id, resource,
\* action and context.tenant_id; and within the decision TTL the second of two requests that differ in other
\* fields only is answered with the decision and reason codes of the first.
C17_KeyAsStated ==
    /\ last.op = "check_authorization" =>
          \A r \in KeyDomain :
             generate_decision_key(last.request) = generate_decision_key(r)
                <=> KeyFields(last.request) = KeyFields(r)
    /\ StatedCollision => AnsweredAsFirst

\* C17, amended: the request of a check and any other request have the
\* same decision key if and only if they agree on user_id, resource,
\* action, context.tenant_id and on having a context object at all; ip_address, resource_owner_id and the other
\* context fields never influence the key; and the second of two such
\* requests is answered from the cache, with the decision and reason codes
\* of the first, as long as the decision cache keeps the entry that the
\* first call wrote or read (until it expires or is evicted).
C17_KeyCollision ==
    /\ last.op = "check_authorization" =>
          \A r \in KeyDomain :
             generate_decision_key(last.request) = generate_decision_key(r)
                <=> /\ KeyFields(last.request) = KeyFields(r)
                    /\ last.request.context.is_none = r.context.is_none
    /\ CollidingCall /\ served.cached => last.hit /\ AnsweredAsFirst

\* C17 witness: a read that names a resource owner is answered with the
\* ALLOW cached for the same read with another context
C17_Witness ==
    /\ CollidingCall /\ served.cached /\ last.hit
    /\ last.request.context.resource_owner_id # NoneV
    /\ served.decision = "ALLOW"

\* the i-th condition of the last call holds: a plain value by equality
\* with context[key], an {operator, value} map by its operator
Holds(i) ==
    LET cond == last.conditions[i]
        actual == IF cond.key \in DOMAIN last.context THEN last.context[cond.key]
                  ELSE NoneV
    IN  IF cond.expected.type = "dict"
        THEN complex_condition(cond.key, cond.expected.v, actual).matched
        ELSE actual = cond.expected

Passed(i) == "ABAC_CONDITION_PASSED_" \o upper(last.conditions[i].key)
Failed(i) == "ABAC_CONDITION_FAILED_" \o upper(last.conditions[i].key)

\* C18: evaluate_conditions(conditions, context) returns matched = true
\* exactly when every condition holds; on success with n >= 1 conditions
\* the reasons are the n ABAC_CONDITION_PASSED_<KEY> codes in iteration
\* order, on failure exactly one ABAC_CONDITION_FAILED_<KEY> code naming
\* the first failing key, and an empty conditions map returns (true, []).
C18_FailFast ==
    last.op = "evaluate_conditions" =>
        LET n == Len(last.conditions)
        IN  /\ last.result.matched <=> \A i \in 1..n : Holds(i)
            /\ last.result.matched =>
                  /\ Len(last.result.reasons) = n
                  /\ \A i \in 1..n : last.result.reasons[i] = Passed(i)
            /\ ~last.result.matched =>
                  \E i \in 1..n :
                     /\ ~Holds(i)
                     /\ \A j \in 1..(i - 1) : Holds(j)
                     /\ last.result.reasons = <<Failed(i)>>
            /\ n = 0 => last.result = [matched |-> TRUE, reasons |-> <<>>]

\* C18 witness: of three conditions the first holds and the two others
\* fail, the second by its operator
C18_Witness ==
    /\ last.op = "evaluate_conditions"
    /\ Len(last.conditions) = 3
    /\ Holds(1) /\ ~Holds(2) /\ ~Holds(3)
    /\ last.conditions[2].expected.type = "dict"
    /\ last.result.reasons = <<Failed(2)>>

\* three conditions hold, plain and by operator
ThreePassed ==
    /\ last.op = "evaluate_conditions"
    /\ Len(last.conditions) = 3
    /\ last.result.matched
    /\ \E i, j \in 1..3 : /\ last.conditions[i].expected.type = "dict"
                          /\ last.conditions[j].expected.type # "dict"

OrderingOperators == {"gt", "gte", "lt", "lte"}
KnownOperators ==
    OrderingOperators \cup {"eq", "ne", "in", "not_in", "contains", "regex", "null"}

\* the last call is _evaluate_complex_condition with this operator
ComplexCall(operators) ==
    /\ last.op = "_evaluate_complex_condition"
    /\ operator_of(last.condition) \in operators

\* the expected value of the last call is no list
ExpectedNoList == expected_of(last.condition).type # "list"

\* what C19 says of every operator but not_in: nothing is raised, an
\* ordering operator on operands that cannot be compared does not match,
\* "in" with an expected value that is no list does not match, an unknown
\* operator does not match
StatedButNotIn ==
    /\ last.op = "_evaluate_complex_condition" => ~last.result.raised
    /\ ComplexCall(OrderingOperators)
         /\ Order(last.value, expected_of(last.condition)) = "err"
          => ~last.result.matched
    /\ ComplexCall({"in"}) /\ ExpectedNoList => ~last.result.matched
    /\ ComplexCall(Operators \ KnownOperators) => ~last.result.matched

\* C19 as stated: operator evaluation never raises; an ordering operator on
\* operands that cannot be compared yields non-matching, "in" with an
\* expected value that is not a list yields non-matching, "not_in" with an
\* expected value that is not a list yields matching, and an unknown
\* operator yields non-matching.
C19_NotInAsStated ==
    /\ StatedButNotIn
    /\ ComplexCall({"not_in"}) /\ ExpectedNoList => last.result.matched

\* C19, amended: as stated, except that "not_in" with an expected value
\* that is not a list yields matching when the context has a value for the
\* key and non-matching when the value is absent (None).
C19_OperatorSafety ==
    /\ StatedButNotIn
    /\ ComplexCall({"not_in"}) /\ ExpectedNoList =>
          (last.result.matched <=> last.value.type # "NoneType")

\* C19 witness: gt of a string against a number
C19_Witness ==
    /\ ComplexCall({"gt"})
    /\ last.value = StrV(High)
    /\ expected_of(last.condition) = IntV(2)
    /\ ~last.result.raised /\ ~last.result.matched

\* not_in with an expected string, the value present
NotInWithoutList ==
    /\ ComplexCall({"not_in"})
    /\ expected_of(last.condition) = StrV(Ip10)
    /\ last.value = StrV(Ip1)
    /\ last.result.matched

\* the last call evaluated its request and has_permission returned false
RbacFailed ==
    /\ last.op = "check_authorization"
    /\ ~last.hit
    /\ last.rbac.called /\ ~last.rbac.allowed

\* C20: RBAC failure short-circuits the pipeline.  When has_permission
\* returns false the evaluation returns DENY with the RBAC reasons as
\* reason codes and ['rbac_policy'] as evaluated policies, and neither
\* evaluate_conditions nor check_ownership is invoked for the request.
C20_RbacShortCircuit ==
    RbacFailed =>
        /\ ~last.evaluation.raised
        /\ last.evaluation.decision = "DENY"
        /\ last.evaluation.reason_codes = last.rbac.reasons
        /\ last.evaluation.evaluated_policies = <<"rbac_policy">>
        /\ last.evaluation.invoked = <<"has_permission">>
        /\ last.outcome = "returned"
        /\ last.response.decision = "DENY"
        /\ last.response.reason_codes = last.rbac.reasons
        /\ last.response.evaluated_policies = <<"rbac_policy">>

\* C20 witness: the user holds a role that grants nothing for the request,
\* an ownership-relevant action on a resource that the user owns
C20_Witness ==
    /\ RbacFailed
    /\ last.rbac.roles # <<>>
    /\ last.rbac.reasons = <<"NO_PERMISSION">>
    /\ applies_to_action(last.request.action)
    /\ last.request.context.resource_owner_id = UuidV(last.request.user_id)
    /\ last.evaluation.invoked = <<"has_permission">>

\* a request for which has_permission returned true went on to the ABAC
\* evaluator
AbacReached ==
    /\ last.op = "check_authorization" /\ last.rbac.allowed
    /\ last.evaluation.invoked = <<"has_permission", "evaluate_conditions">>

\* the last call evaluated its request, and RBAC and ABAC passed
RbacAndAbacPassed ==
    /\ last.op = "check_authorization"
    /\ ~last.hit
    /\ last.rbac.called /\ last.rbac.allowed
    /\ evaluate_conditions(<<>>, last.request.context).matched

\* the ownership step applies to the last request
OwnershipApplies ==
    /\ last.request.action \in {"read", "update", "delete"}
    /\ last.request.context.resource_owner_id # NoneV

\* the reason codes that check_ownership gives for the last request
OwnerCodes ==
    IF last.request.context.resource_owner_id = UuidV(last.request.user_id)
    THEN <<"OWNER_ACCESS", "OWNER_ACTION_" \o upper(last.request.action)>>
    ELSE <<"NOT_OWNER">>

\* C21: on a decision-cache miss where RBAC and ABAC pass, check_ownership
\* is invoked if and only if the action is read, update or delete and
\* context.resource_owner_id is present; its reason codes are then appended
\* after the RBAC and ABAC codes and 'ownership_policy' is appended to
\* evaluated_policies; for create and execute, or without an owner id,
\* neither is added.
C21_OwnershipStep ==
    RbacAndAbacPassed =>
        /\ Contains(last.evaluation.invoked, "check_ownership") <=> OwnershipApplies
        /\ OwnershipApplies =>
              /\ last.evaluation.reason_codes = last.rbac.reasons \o OwnerCodes
              /\ last.evaluation.evaluated_policies
                    = <<"rbac_policy", "abac_policy", "ownership_policy">>
        /\ ~OwnershipApplies =>
              /\ last.evaluation.reason_codes = last.rbac.reasons
              /\ last.evaluation.evaluated_policies = <<"rbac_policy", "abac_policy">>

\* the half of C21 about requests to which the ownership step does not
\* apply
NoOwnershipStep ==
    RbacAndAbacPassed /\ ~OwnershipApplies =>
        /\ ~Contains(last.evaluation.invoked, "check_ownership")
        /\ last.evaluation.reason_codes = last.rbac.reasons
        /\ last.evaluation.evaluated_policies = <<"rbac_policy", "abac_policy">>

\* a create with an owner id passed RBAC and ABAC
CreateWithOwner ==
    /\ RbacAndAbacPassed
    /\ last.request.action = "create"
    /\ last.request.context.resource_owner_id # NoneV

\* the last call evaluated its request and has_permission returned true
RbacPassed ==
    /\ last.op = "check_authorization"
    /\ ~last.hit
    /\ last.rbac.called /\ last.rbac.allowed

\* the owner id of the last request is present and is not the subject
NotTheOwner ==
    /\ OwnershipApplies
    /\ last.request.context.resource_owner_id # UuidV(last.request.user_id)

\* C22: the ownership step can never force DENY.  Whenever RBAC passes,
\* check_authorization returns ALLOW, also when the subject is not the
\* resource owner, and the ALLOW then carries the NOT_OWNER reason code.
C22_OwnershipNeverDenies ==
    RbacPassed =>
        /\ last.outcome = "returned"
        /\ last.response.decision = "ALLOW"
        /\ NotTheOwner => Contains(last.response.reason_codes, "NOT_OWNER")

\* a call whose request passed RBAC returns ALLOW if it returns
NoDenyAfterRbac ==
    RbacPassed /\ last.outcome = "returned" => last.response.decision = "ALLOW"

\* a subject that is not the owner passed RBAC
NotOwnerPassedRbac == RbacPassed /\ NotTheOwner

\* the decision-cache key of the request of the last call
LastKey == decision_key_of(generate_decision_key(last.request))

\* the step is a check_authorization that found a live entry for its key
HitStep ==
    /\ last'.op = "check_authorization"
    /\ last'.hit
    /\ decision_cache'.hits = decision_cache.hits + 1

\* the entries of a cache, whatever their order
Entries(c) == {c.cache[i] : i \in 1..Len(c.cache)}

\* C23: a check_authorization that finds a live decision-cache entry for
\* the key of its request returns the stored decision without invoking
\* RBAC, ABAC, Ownership or the gateway and without writing to the decision
\* cache: every entry keeps its value and its expiry instant.
C23_HitFrame ==
    [][HitStep =>
        LET key == decision_key_of(generate_decision_key(last'.request))
        IN  /\ key \in KeysOf(decision_cache)
            /\ ~is_expired(EntryOf(decision_cache, key), now)
            /\ last'.outcome = "returned"
            /\ last'.response = EntryOf(decision_cache, key).value
            /\ last'.rbac = NoRbac
            /\ last'.evaluation = NoEvaluation
            /\ Entries(decision_cache') = Entries(decision_cache)
            /\ role_cache' = role_cache
            /\ policy_cache' = policy_cache]_vars

\* C23 witness: a hit at the expiry instant of the entry, one TTL after it
\* was written
C23_Witness ==
    /\ last.op = "check_authorization" /\ last.hit
    /\ now > 0
    /\ EntryOf(decision_cache, LastKey).expiry = now

\* the step is a call of set on the stand-alone cache (the clock stands
\* still during a call)
SetStep == lruLast'.op = "set" /\ now' = now

\* C24: set(key, v) on a key already stored replaces its value and expiry,
\* moves it to the most-recently-used position, evicts nothing and leaves
\* the size of the cache and all other entries unchanged, even when the
\* cache holds max_size entries.
C24_UpdateInPlace ==
    [][SetStep /\ lruLast'.key \in KeysOf(lru) =>
        LET key == lruLast'.key
        IN  /\ lru'.cache[Len(lru'.cache)]
                  = [key |-> key, value |-> lruStored'[key].value,
                     expiry |-> now + lru.default_ttl]
            /\ Len(lru'.cache) = Len(lru.cache)
            /\ KeysOf(lru') = KeysOf(lru)
            /\ Without(lru'.cache, key) = Without(lru.cache, key)
            /\ lru'.hits = lru.hits /\ lru'.misses = lru.misses
            /\ lru'.max_size = lru.max_size]_vars

\* C24 witness: in a full cache the least recently used key has been set
\* again, later and with another value, and is now the most recent one
C24_Witness ==
    /\ lruLast.op = "set" /\ ~lruLast.new /\ lruLast.full
    /\ lruLast.oldest = lruLast.key
    /\ lruLast.removed = {}
    /\ now > 0
    /\ lru.cache[Len(lru.cache)].key = lruLast.key
    /\ lru.cache[Len(lru.cache)].expiry = now + lru.default_ttl
    /\ lru.cache[1].expiry < now + lru.default_ttl

\* role number i of the list that has_permission scanned for the last
\* request has a permission with the requested resource type and action
Grants(i) ==
    \E j \in 1..Len(last.rbac.roles[i].permissions) :
        /\ last.rbac.roles[i].permissions[j].resource_type
              = resource_type_of(last.request.resource)
        /\ last.rbac.roles[i].permissions[j].action = last.request.action

\* has_permission was called for the last request with a non-empty role list
ScannedRoles ==
    /\ last.op = "check_authorization"
    /\ last.rbac.called
    /\ last.rbac.roles # <<>>

\* C25: for a non-empty role list has_permission returns
\* (true, ['RBAC_MATCH', 'ROLE_<NAME>']), NAME the upper-cased name of the
\* first role in the order returned that has a permission with exactly the
\* requested resource_type and action, and (false, ['NO_PERMISSION']) when
\* no role has such a permission.
C25_FirstGrantingRole ==
    ScannedRoles =>
        /\ last.rbac.allowed <=> \E i \in 1..Len(last.rbac.roles) : Grants(i)
        /\ ~last.rbac.allowed => last.rbac.reasons = <<"NO_PERMISSION">>
        /\ last.rbac.allowed =>
              \E i \in 1..Len(last.rbac.roles) :
                 /\ Grants(i)
                 /\ \A k \in 1..(i - 1) : ~Grants(k)
                 /\ last.rbac.reasons
                       = <<"RBAC_MATCH", "ROLE_" \o upper(last.rbac.roles[i].name)>>

\* C25 witness: the first role of the list does not grant the request and
\* the second one does
C25_Witness ==
    /\ ScannedRoles
    /\ Len(last.rbac.roles) = 2
    /\ ~Grants(1) /\ Grants(2)
    /\ last.rbac.reasons = <<"RBAC_MATCH", "ROLE_" \o upper(last.rbac.roles[2].name)>>

\* two roles grant the request, and the first is named
BothRolesGrant ==
    /\ ScannedRoles
    /\ Len(last.rbac.roles) = 2
    /\ Grants(1) /\ Grants(2)
    /\ last.rbac.roles[1].name # last.rbac.roles[2].name

\* roles are held and none grants the request
NoRoleGrants ==
    ScannedRoles /\ last.rbac.reasons = <<"NO_PERMISSION">>

\* the HTTP attempts among the first retry_attempts that succeed
Successes ==
    {i \in 1..last.retry_attempts : last.attempts[i] = "ok"}

\* C26: _request always terminates after at most retry_attempts HTTP
\* attempts: it returns the response of the first successful attempt
\* without making further attempts, and raises EntityServiceError once
\* retry_attempts attempts have failed (also when retry_attempts is 0).
C26_BoundedRetries ==
    last.op = "_request" =>
        /\ last.made <= last.retry_attempts
        /\ Successes # {} =>
              /\ last.result = "ok"
              /\ last.response \in Successes
              /\ \A i \in Successes : last.response <= i
              /\ last.made = last.response
        /\ Successes = {} =>
              /\ last.result = "EntityServiceError"
              /\ last.made = last.retry_attempts

\* C26 witness: two failures of different kinds, then a success on the
\* last attempt allowed
C26_Witness ==
    /\ last.op = "_request"
    /\ last.retry_attempts = 3
    /\ last.attempts = <<"status", "error", "ok">>
    /\ last.result = "ok" /\ last.made = 3

\* a client with retry_attempts 0 raises without an attempt
NoAttemptAllowed ==
    /\ last.op = "_request"
    /\ last.retry_attempts = 0
    /\ last.attempts[1] = "ok"
    /\ last.result = "EntityServiceError" /\ last.made = 0

\* the role fetch of the last check_authorization failed on every retry
RoleFetchFailed ==
    last.op = "check_authorization" /\ last.rbac.fetched /\ ~last.rbac.fetch_ok

\* C28: get_user_roles writes a role list to the role cache only when the
\* gateway fetch of the user's roles and every per-role permission fetch
\* succeeded; a failed fetch leaves the role cache unchanged, so the next
\* call for the same user and tenant queries the gateway again.
C28_FailedFetchNotCached ==
    RoleFetchFailed => ~RolesServed(last.request.user_id)

\* what the code does: the empty list that stands for the failed fetch is
\* cached, and the role cache serves it to the next call
FailedFetchCached ==
    RoleFetchFailed =>
        \E got \in {LRUCache_get(role_cache, user_roles_key(last.request.user_id, "all"), now)} :
            got.found /\ got.value = <<>>

\* a failed role fetch for a user who holds a role in the entity store
FailedFetchOfRoleHolder ==
    RoleFetchFailed /\ user_roles[last.request.user_id] # <<>>

\* a step that is a call of get on the stand-alone cache
GetStep == lruLast'.op = "get" /\ lruLast'.gets # lruLast.gets

\* C29: hits + misses equals the number of get calls made since the last
\* clear(): every get increments exactly one of the two counters; set,
\* delete and clear_pattern change neither (clear_pattern('*') empties the
\* cache but keeps the counters); only clear() resets both to 0.
C29_Counters ==
    [][/\ lru'.hits + lru'.misses = lruLast'.gets
       /\ GetStep =>
            \/ lru'.hits = lru.hits + 1 /\ lru'.misses = lru.misses
            \/ lru'.hits = lru.hits /\ lru'.misses = lru.misses + 1
       /\ lruLast'.op = "clear" => lru'.hits = 0 /\ lru'.misses = 0
       /\ ~GetStep /\ lruLast'.op # "clear" =>
            lru'.hits = lru.hits /\ lru'.misses = lru.misses]_vars

\* C29 witness: clear_pattern('*') has emptied a cache that had counted a
\* hit and a miss, and the counters stand
C29_Witness ==
    /\ lruLast.op = "clear_pattern" /\ lruLast.key = <<"*">>
    /\ lruLast.removed # {}
    /\ lru.cache = <<>>
    /\ lru.hits = 1 /\ lru.misses = 1

\* clear() has reset counters that had counted a hit and a miss
CountersReset ==
    /\ lruLast.op = "clear"
    /\ lruLast.hits = 1 /\ lruLast.misses = 1
    /\ lru.hits = 0 /\ lru.misses = 0

RbacCodes == {"NO_ROLES", "NO_PERMISSION", "RBAC_MATCH"}
PolicyOrder == <<"rbac_policy", "abac_policy", "ownership_policy">>

\* reason_codes and evaluated_policies have the stated shape
WellFormed(reason_codes, evaluated_policies) ==
    /\ reason_codes # <<>>
    /\ reason_codes[1] \in RbacCodes
    /\ \A i \in 1..Len(reason_codes) : reason_codes[i] \notin {"DEFAULT_DENY", "ALLOW"}
    /\ evaluated_policies # <<>>
    /\ Len(evaluated_policies) <= Len(PolicyOrder)
    /\ evaluated_policies = SubSeq(PolicyOrder, 1, Len(evaluated_policies))

\* _evaluate has returned a decision in the last call
Decided ==
    /\ last.op = "check_authorization"
    /\ last.evaluation.invoked # <<>>
    /\ ~last.evaluation.raised

\* C30: every decision produced by the evaluation pipeline has a non-empty
\* reason_codes list whose first code is NO_ROLES, NO_PERMISSION or
\* RBAC_MATCH, and an evaluated_policies list that is a non-empty prefix of
\* [rbac_policy, abac_policy, ownership_policy]; the fallback codes
\* DEFAULT_DENY and ALLOW are never emitted.  The responses returned, from
\* the cache included, carry such a decision.
C30_DecisionShape ==
    /\ Decided => WellFormed(last.evaluation.reason_codes,
                             last.evaluation.evaluated_policies)
    /\ last.op = "check_authorization" /\ last.outcome = "returned" =>
           WellFormed(last.response.reason_codes, last.response.evaluated_policies)

\* C30 witness: a refusal for want of roles, whose reasons are those of
\* has_permission
C30_Witness ==
    /\ Decided
    /\ last.evaluation.decision = "DENY"
    /\ last.evaluation.reason_codes = <<"NO_ROLES">>
    /\ last.evaluation.evaluated_policies = <<"rbac_policy">>

\* an ALLOW after the RBAC and the ABAC step
AllowAfterTwoSteps ==
    /\ Decided
    /\ last.evaluation.decision = "ALLOW"
    /\ last.evaluation.reason_codes[1] = "RBAC_MATCH"
    /\ last.evaluation.evaluated_policies = <<"rbac_policy", "abac_policy">>

\* a refusal by a role list that does not grant the request
DenyNoPermission ==
    /\ Decided
    /\ last.evaluation.reason_codes = <<"NO_PERMISSION">>

\* the call that has just finished was suspended while an invalidation
\* that covers its user completed
FinishedAfterInvalidation ==
    /\ last.op = "check_authorization"
    /\ "invalidated" \in DOMAIN last
    /\ last.invalidated
    /\ last.rbac.fetched

\* C27: invalidation is not undone by evaluations in flight.  If clear_all()
\* or clear_user(U) completes while a check_authorization for U is
\* suspended on a gateway call, then once that evaluation finishes the role
\* cache and the decision cache contain no entry computed from role data
\* fetched before the invalidation.
C27_InvalidationHolds ==
    FinishedAfterInvalidation /\ last.rbac.roles # <<>> =>
        /\ ~RolesServed(last.request.user_id)
        /\ ~DecisionServed(last.request)

\* what the code does: the resumed call caches the role list it had fetched
\* and the decision it derives from it
ResumedCallCaches ==
    FinishedAfterInvalidation /\ last.outcome = "returned" =>
        /\ LRUCache_get(role_cache, user_roles_key(last.request.user_id, "all"), now).value
               = last.rbac.roles
        /\ DecisionServed(last.request)

\* a revoked role keeps granting: the role was fetched, then revoked with
\* clear_user, and the resumed call caches the role and an ALLOW
StaleGrant ==
    /\ FinishedAfterInvalidation
    /\ user_roles[last.request.user_id] = <<>>
    /\ last.response.decision = "ALLOW"
    /\ RolesServed(last.request.user_id)
    /\ DecisionServed(last.request)

=============================================================================
